---- MODULE Spec2Model ----
(***************************************************************************)
(* A model of the newwork backend core:                                    *)
(*   - the tool execution engine (app/services/tool_execution_service.py), *)
(*   - the conversation state (app/services/conversation_service.py),      *)
(*   - the streaming orchestrator (app/services/streaming_handler.py),     *)
(*   - the MCP connection layer (app/services/mcp_connection_service.py).  *)
(*                                                                         *)
(* Specifications:                                                         *)
(*   SpecConv  any sequence of the Conversation append operations          *)
(*   SpecTool  any sequence of execute_tool / respond_permission calls     *)
(*   SpecOrch  any sequence of process_prompt / continue_after_permission  *)
(*             runs of one StreamingHandler, step by step                  *)
(*   SpecMCP   the connection manager's connect and disconnect calls, the   *)
(*             connections and their servers                               *)
(*   SpecRPC   one connection and the concurrent requests made on it       *)
(***************************************************************************)
EXTENDS Integers, Sequences, FiniteSets, TLC

(***************************************************************************)
(* Bounds of the model.                                                    *)
(***************************************************************************)
\* tool uses the provider requests in total
MaxToolUses == 2
\* execute_tool calls made directly on the service
MaxCalls == 3
\* runs of one handler: process_prompt and continue_after_permission calls
MaxRuns == 3
\* text deltas in one provider round
MaxDeltas == 1
\* messages of a conversation built directly by the append operations
MaxMessages == 4
\* tool uses a provider requests in a run of consecutive tool rounds
MaxRoundToolUses == 10
\* text deltas of one provider round, where the accumulation is observed
MaxRoundDeltas == 2
\* overlapping send_prompt_stream requests for one session id
MaxHandlers == 2
\* tool uses of one execute_tools call
MaxBatch == 2
\* tool calls in one provider response
MaxToolCalls == 2
\* argument fragments of one tool call
MaxFragments == 3
\* server names known to the connection manager
MaxServers == 2
\* MCPConnection objects MCPConnectionManager.connect constructs in total
MaxConns == 2
\* requests made through MCPConnectionManager.call_tool and get_health
MaxRequests == 2
\* lines that are not JSON a server writes to one connection
MaxMalformed == 2
\* StreamingHandler.max_tool_iterations
max_tool_iterations == 10

\* the state tokens generate_state hands out in one run
MaxStates == 3
\* the minutes the clock runs, and the minutes between two readings of it
MaxClock == 20
ClockStep == 5
\* OAuthService.STATE_TTL_MINUTES
STATE_TTL_MINUTES == 10

\* the tool uses a provider hands out to a resumed run, one a round
MaxResumeToolUses == 11

VARIABLES
    \* Conversation.messages
    messages,
    \* ToolExecutionService._pending_permissions, _approved_tools, _always_approved
    pending_permissions, approved_tools, always_approved,
    \* uuid4() of request_permission: the next fresh permission id
    next_permission_id,
    \* the next fresh tool-use id the provider hands out
    next_tool_use_id,
    \* history: the tool uses whose Tool.execute was invoked, in order
    executed,
    \* history: the permission ids respond_permission found, in order
    resolved,
    \* the arguments and the return value of the last service call
    last_call,
    \* StreamingHandler run: position, kind of run, and the locals
    pc, run, iteration, accumulated_text, tool_uses, tool_results,
    \* the SSE events the current (or last) run has yielded
    events,
    \* history: the provider stream of the current round yielded an ERROR event
    stream_error,
    \* the calls made on the handler so far
    prompts, continues,
    \* every MCPConnection object constructed so far, by order of construction
    connections,
    \* MCPConnectionManager._connections: the dict, in insertion order, of
    \* server name and connection
    _connections,
    \* MCPConnectionManager._lock is held
    _lock,
    \* the MCPConnectionManager.connect call that holds the lock, and its stage
    connecting,
    \* every send_request call that was handed a request id, in order
    requests,
    \* the last call made on the manager (or directly on a connection), and
    \* how it ended
    manager_call,
    \* the StreamingHandler objects made by create_streaming_handler for one
    \* session id: the position of each one's process_prompt run, its locals,
    \* and (history) the indexes of the messages it appended
    handlers,
    \* the execute_tools call in progress on the ToolExecutionService: its
    \* mode, its tool uses, the stage of each execute_tool coroutine, and the
    \* list it returns
    batch,
    \* a stream_complete call of a provider: its tool-call buffers, and
    \* (history) the fragments sent for each tool call and the ToolUse of each
    \* TOOL_USE_END event it has yielded
    provider,
    \* the OAuthService: its _states dict, the clock datetime.now() reads (in
    \* minutes), the state tokens handed out, the last call with what it
    \* returned, and (history) how often validate_state accepted each token
    oauth

convVars == <<messages>>
toolVars == <<pending_permissions, approved_tools, always_approved,
              next_permission_id, next_tool_use_id, executed, resolved,
              last_call>>
runVars == <<pc, run, iteration, accumulated_text, tool_uses, tool_results,
             events, stream_error, prompts, continues>>
mcpVars == <<connections, _connections, _lock, connecting, requests,
             manager_call>>
\* the state of the components that are modelled on their own
sideVars == <<handlers, batch, provider, oauth>>
vars == <<convVars, toolVars, runVars, mcpVars, sideVars>>

(***************************************************************************)
(* The tool registry (app/tools).                                          *)
(***************************************************************************)
ToolNames == {"read_file", "write_file", "bash"}

requires_permission(name) == name \in {"write_file", "bash"}

\* get_tool: whether the registry holds the name
get_tool(name) == name \in ToolNames

\* The tool uses a provider may request: a registered tool with arguments that
\* pass validate_arguments, a gated tool with arguments that do not, and a
\* name the registry does not hold.
ToolUseShapes ==
    {[name |-> "read_file", valid |-> TRUE],
     [name |-> "write_file", valid |-> TRUE],
     [name |-> "write_file", valid |-> FALSE],
     [name |-> "bash", valid |-> TRUE],
     [name |-> "no_such_tool", valid |-> TRUE]}

ToolUse(id, shape) == [id |-> id, name |-> shape.name, valid |-> shape.valid]

LLMToolResult(tool_use_id, content, is_error, permission_id) ==
    [tool_use_id |-> tool_use_id, content |-> content, is_error |-> is_error,
     permission_id |-> permission_id]

NoCall == [op |-> "none", tool_use_id |-> 0, tool_name |-> "", valid |-> FALSE,
           skip_permission |-> FALSE,
           permission_id |-> 0, approved |-> FALSE, always |-> FALSE,
           result |-> LLMToolResult(0, "none", FALSE, 0), found |-> FALSE]

PendingIds == {p.id : p \in pending_permissions}

PermissionById(id) == CHOOSE p \in pending_permissions : p.id = id

(***************************************************************************)
(* ToolExecutionService                                                    *)
(***************************************************************************)
\* a variant that does not consult the approved sets
_needs_permission_unapproved(name) == requires_permission(name)

\* a variant that asks whether anything was approved rather than this tool
_needs_permission_any_approval(name) ==
    IF ~requires_permission(name) THEN FALSE
    ELSE IF always_approved # {} THEN FALSE
    ELSE IF approved_tools # {} THEN FALSE
    ELSE TRUE

_needs_permission(name) ==
    IF ~requires_permission(name) THEN FALSE
    ELSE IF name \in always_approved THEN FALSE
    ELSE IF name \in approved_tools THEN FALSE
    ELSE TRUE

\* request_permission: a fresh PendingPermission enters the pending set.  The
\* field for_tool_use is history: the code keeps the tool name and arguments.
request_permission(tu) ==
    /\ pending_permissions' = pending_permissions \cup
           {[id |-> next_permission_id, tool_name |-> tu.name,
             for_tool_use |-> tu.id]}
    /\ next_permission_id' = next_permission_id + 1

\* execute_tool: succeeds is the outcome of Tool.execute when it is invoked
\* (a failure result or a raised exception both give an error result).
execute_tool(tu, skip_permission, succeeds) ==
    /\ UNCHANGED <<approved_tools, always_approved, resolved>>
    /\ IF ~get_tool(tu.name) THEN
           /\ UNCHANGED <<pending_permissions, next_permission_id, executed>>
           /\ last_call' = [NoCall EXCEPT !.op = "execute_tool",
                              !.tool_use_id = tu.id, !.tool_name = tu.name,
                              !.valid = tu.valid,
                              !.skip_permission = skip_permission,
                              !.result = LLMToolResult(tu.id, "unknown_tool", TRUE, 0)]
       ELSE IF ~tu.valid THEN
           /\ UNCHANGED <<pending_permissions, next_permission_id, executed>>
           /\ last_call' = [NoCall EXCEPT !.op = "execute_tool",
                              !.tool_use_id = tu.id, !.tool_name = tu.name,
                              !.valid = tu.valid,
                              !.skip_permission = skip_permission,
                              !.result = LLMToolResult(tu.id, "invalid_arguments", TRUE, 0)]
       ELSE IF ~skip_permission /\ _needs_permission(tu.name) THEN
           /\ request_permission(tu)
           /\ UNCHANGED executed
           /\ last_call' = [NoCall EXCEPT !.op = "execute_tool",
                              !.tool_use_id = tu.id, !.tool_name = tu.name,
                              !.valid = tu.valid,
                              !.skip_permission = skip_permission,
                              !.result = LLMToolResult(tu.id, "permission_required",
                                                       TRUE, next_permission_id)]
       ELSE
           /\ executed' = Append(executed, [id |-> tu.id, name |-> tu.name])
           /\ UNCHANGED <<pending_permissions, next_permission_id>>
           /\ last_call' = [NoCall EXCEPT !.op = "execute_tool",
                              !.tool_use_id = tu.id, !.tool_name = tu.name,
                              !.valid = tu.valid,
                              !.skip_permission = skip_permission,
                              !.result = LLMToolResult(tu.id,
                                   IF succeeds THEN "output" ELSE "error",
                                   ~succeeds, 0)]

\* a variant that reads the pending permission without removing it
respond_permission_keeps_pending(permission_id, approved, always) ==
    /\ UNCHANGED <<next_permission_id, executed, pending_permissions>>
    /\ IF permission_id \notin PendingIds THEN
           /\ UNCHANGED <<approved_tools, always_approved, resolved>>
           /\ last_call' = [NoCall EXCEPT !.op = "respond_permission",
                              !.permission_id = permission_id,
                              !.approved = approved, !.always = always,
                              !.found = FALSE]
       ELSE
           LET permission == PermissionById(permission_id) IN
           /\ resolved' = Append(resolved, permission_id)
           /\ always_approved' = IF approved /\ always
                                 THEN always_approved \cup {permission.tool_name}
                                 ELSE always_approved
           /\ approved_tools' = IF approved /\ ~always
                                THEN approved_tools \cup {permission.tool_name}
                                ELSE approved_tools
           /\ last_call' = [NoCall EXCEPT !.op = "respond_permission",
                              !.permission_id = permission_id,
                              !.approved = approved, !.always = always,
                              !.found = TRUE]

respond_permission(permission_id, approved, always) ==
    /\ UNCHANGED <<next_permission_id, executed>>
    /\ IF permission_id \notin PendingIds THEN
           /\ UNCHANGED <<pending_permissions, approved_tools, always_approved,
                          resolved>>
           /\ last_call' = [NoCall EXCEPT !.op = "respond_permission",
                              !.permission_id = permission_id,
                              !.approved = approved, !.always = always,
                              !.found = FALSE]
       ELSE
           LET permission == PermissionById(permission_id) IN
           /\ pending_permissions' = pending_permissions \ {permission}
           /\ resolved' = Append(resolved, permission_id)
           /\ always_approved' = IF approved /\ always
                                 THEN always_approved \cup {permission.tool_name}
                                 ELSE always_approved
           /\ approved_tools' = IF approved /\ ~always
                                THEN approved_tools \cup {permission.tool_name}
                                ELSE approved_tools
           /\ last_call' = [NoCall EXCEPT !.op = "respond_permission",
                              !.permission_id = permission_id,
                              !.approved = approved, !.always = always,
                              !.found = TRUE]

\* get_pending_permissions, as the orchestrator uses it: a truth value
get_pending_permissions == pending_permissions

(***************************************************************************)
(* Conversation                                                            *)
(***************************************************************************)
ConversationMessage(id, role, content, tus, trs) ==
    [id |-> id, role |-> role, content |-> content, tool_uses |-> tus,
     tool_results |-> trs]

\* uuid4(): an id no message of the conversation has
FreshMessageId(msgs) == Len(msgs) + 1

add_user_message(msgs, content) ==
    Append(msgs, ConversationMessage(FreshMessageId(msgs), "user", content,
                                     <<>>, <<>>))

add_assistant_message(msgs, content, tus) ==
    Append(msgs, ConversationMessage(FreshMessageId(msgs), "assistant", content,
                                     tus, <<>>))

add_tool_results(msgs, trs) ==
    Append(msgs, ConversationMessage(FreshMessageId(msgs), "user", "", <<>>, trs))

NoMessage == ConversationMessage(0, "none", "", <<>>, <<>>)

\* for msg in reversed(self.messages): the first assistant message from the end
RECURSIVE LastAssistantFrom(_, _)
LastAssistantFrom(msgs, i) ==
    IF i = 0 THEN NoMessage
    ELSE IF msgs[i].role = "assistant" THEN msgs[i]
    ELSE LastAssistantFrom(msgs, i - 1)

get_last_assistant_message(msgs) == LastAssistantFrom(msgs, Len(msgs))

\* list.index: the first position holding an equal message
RECURSIVE IndexFrom(_, _, _)
IndexFrom(msgs, m, i) ==
    IF msgs[i] = m THEN i ELSE IndexFrom(msgs, m, i + 1)

index(msgs, m) == IndexFrom(msgs, m, 1)

\* a variant that does not look for a later tool-result message
get_pending_tool_uses_unchecked(msgs) ==
    LET last_assistant == get_last_assistant_message(msgs) IN
    IF last_assistant = NoMessage \/ last_assistant.tool_uses = <<>> THEN <<>>
    ELSE last_assistant.tool_uses

get_pending_tool_uses(msgs) ==
    LET last_assistant == get_last_assistant_message(msgs) IN
    IF last_assistant = NoMessage \/ last_assistant.tool_uses = <<>> THEN <<>>
    ELSE LET assistant_idx == index(msgs, last_assistant) IN
         IF \E j \in (assistant_idx + 1)..Len(msgs) : msgs[j].tool_results # <<>>
         THEN <<>>
         ELSE last_assistant.tool_uses

(***************************************************************************)
(* The state after construction: an empty conversation, a tool service     *)
(* with nothing pending or approved, an idle handler.                      *)
(***************************************************************************)
ServerNames == 1..MaxServers

NoConnect == [conn |-> 0, stage |-> "none"]

\* a call on the manager: what was called, for which server name, the
\* connection it worked on or returned, and how it ended
\* MCPHealthStatus: latency is 1 for a latency_ms that is not negative, -1
\* for the sentinel of ping, 0 for none; ping is history: how the
\* send_request of the ping ended
MCPHealthStatus(is_healthy, state, latency, error, ping) ==
    [is_healthy |-> is_healthy, state |-> state, latency |-> latency,
     error |-> error, ping |-> ping]

NoHealth == MCPHealthStatus(FALSE, "none", 0, "", "none")

ManagerCall(op, server_name, conn, outcome) ==
    [op |-> op, server_name |-> server_name, conn |-> conn, outcome |-> outcome,
     health |-> NoHealth]

NoManagerCall == ManagerCall("none", 0, 0, "none")

\* no stream_complete call has been made
NoStream == [name |-> "none", current_tool_id |-> 0, current_tool_input |-> <<>>,
             current_tool_calls |-> <<>>, sent |-> <<>>, tool_uses |-> <<>>,
             finished |-> FALSE]

\* no execute_tools call has been made
NoBatch == [parallel |-> FALSE, tool_uses |-> <<>>, stage |-> <<>>,
            succeeds |-> <<>>, own |-> <<>>, results |-> <<>>,
            returned |-> FALSE]

Handlers == 1..MaxHandlers

\* StreamingHandler(provider, conversation, tool_service) before any call
StreamingHandler == [pc |-> "idle", tool_uses |-> <<>>, appended |-> {}]

NoRun == [kind |-> "none", status |-> "none", permission_id |-> 0,
          approved |-> FALSE, target |-> 0]

\* the state tokens of secrets.token_urlsafe(32): 256 random bits, which never
\* repeat; the last one is a token no generate_state call returns
Tokens == 1..(MaxStates + 1)

\* the None of (False, None)
NoStateData == [server_name |-> 0, expires_at |-> 0]

NoOAuthCall == [op |-> "none", state |-> 0, is_valid |-> FALSE,
                state_data |-> NoStateData, removed |-> 0]

\* OAuthService() with the class attribute _states = {}
OAuthService == [_states |-> {}, now |-> 0, issued |-> <<>>, accepted |-> {},
                 deleted |-> {}, call |-> NoOAuthCall]

Init ==
    /\ messages = <<>>
    /\ pending_permissions = {}
    /\ approved_tools = {}
    /\ always_approved = {}
    /\ next_permission_id = 1
    /\ next_tool_use_id = 1
    /\ executed = <<>>
    /\ resolved = <<>>
    /\ last_call = NoCall
    /\ pc = "idle"
    /\ run = NoRun
    /\ iteration = 0
    /\ accumulated_text = 0
    /\ tool_uses = <<>>
    /\ tool_results = <<>>
    /\ events = <<>>
    /\ stream_error = FALSE
    /\ prompts = 0
    /\ continues = 0
    /\ connections = <<>>
    /\ _connections = <<>>
    /\ _lock = FALSE
    /\ connecting = NoConnect
    /\ requests = <<>>
    /\ manager_call = NoManagerCall
    /\ handlers = [h \in Handlers |-> StreamingHandler]
    /\ batch = NoBatch
    /\ provider = NoStream
    /\ oauth = OAuthService

(***************************************************************************)
(* SpecSession: overlapping send_prompt_stream requests for one session    *)
(* id.  Each makes its own StreamingHandler (and ToolExecutionService) on  *)
(* the Conversation that get_or_create_conversation returns for the id;    *)
(* a run gives way to the others at every yield and every await.           *)
(***************************************************************************)
\* a process_prompt run of handler h from the call to the user message event
SessionPrompt(h) ==
    /\ handlers[h].pc = "idle"
    /\ messages' = add_user_message(messages, "prompt")
    /\ handlers' = [handlers EXCEPT
                      ![h] = [pc |-> "stream", tool_uses |-> <<>>,
                              appended |-> {Len(messages')}]]
    /\ UNCHANGED <<toolVars, runVars, mcpVars, batch, provider, oauth>>

\* a TOOL_USE_END event of the provider stream of handler h
SessionToolUse(h) ==
    /\ handlers[h].pc = "stream"
    /\ handlers[h].tool_uses = <<>>
    /\ next_tool_use_id <= MaxToolUses
    /\ handlers' = [handlers EXCEPT ![h].tool_uses =
          <<ToolUse(next_tool_use_id, [name |-> "read_file", valid |-> TRUE])>>]
    /\ next_tool_use_id' = next_tool_use_id + 1
    /\ UNCHANGED <<convVars, pending_permissions, approved_tools, always_approved,
                   next_permission_id, executed, resolved, last_call, runVars,
                   mcpVars, batch, provider, oauth>>

\* the provider stream of handler h is exhausted: the assistant message
SessionStreamEnd(h) ==
    /\ handlers[h].pc = "stream"
    /\ messages' = add_assistant_message(messages, 0, handlers[h].tool_uses)
    /\ handlers' = [handlers EXCEPT
          ![h].pc = IF handlers[h].tool_uses # <<>> THEN "exec" ELSE "done",
          ![h].appended = @ \cup {Len(messages')}]
    /\ UNCHANGED <<toolVars, runVars, mcpVars, batch, provider, oauth>>

\* the tools of the round of handler h were executed: the tool-result
\* message, and the next round
SessionToolResults(h) ==
    /\ handlers[h].pc = "exec"
    /\ \E is_error \in BOOLEAN :
          messages' = add_tool_results(messages,
              <<LLMToolResult(handlers[h].tool_uses[1].id, "result", is_error, 0)>>)
    /\ handlers' = [handlers EXCEPT ![h].pc = "stream", ![h].tool_uses = <<>>,
                                    ![h].appended = @ \cup {Len(messages')}]
    /\ UNCHANGED <<toolVars, runVars, mcpVars, batch, provider, oauth>>

NextSession ==
    \E h \in Handlers :
        \/ SessionPrompt(h) \/ SessionToolUse(h) \/ SessionStreamEnd(h)
        \/ SessionToolResults(h)

SpecSession == Init /\ [][NextSession]_vars

(***************************************************************************)
(* SpecConv: the append operations of one Conversation, in any order.      *)
(***************************************************************************)
\* the tool-use lists an assistant message may carry, with fresh ids from n
\* (the append operations do not look into a tool use)
ToolUseLists(n) ==
    LET s == [name |-> "read_file", valid |-> TRUE] IN
    {<<>>, <<ToolUse(n, s)>>, <<ToolUse(n, s), ToolUse(n + 1, s)>>}

ConvAddUser ==
    /\ Len(messages) < MaxMessages
    /\ messages' = add_user_message(messages, "prompt")
    /\ UNCHANGED <<sideVars, mcpVars, toolVars, runVars>>

ConvAddAssistant ==
    /\ Len(messages) < MaxMessages
    /\ \E tus \in ToolUseLists(next_tool_use_id) :
          /\ messages' = add_assistant_message(messages, "text", tus)
          /\ next_tool_use_id' = next_tool_use_id + Len(tus)
    /\ UNCHANGED <<sideVars, mcpVars, pending_permissions, approved_tools, always_approved,
                   next_permission_id, executed, resolved, last_call, runVars>>

ConvAddToolResults ==
    /\ Len(messages) < MaxMessages
    /\ \E trs \in {<<>>, <<LLMToolResult(1, "output", FALSE, 0)>>,
                   <<LLMToolResult(1, "error", TRUE, 0),
                     LLMToolResult(2, "output", FALSE, 0)>>} :
          messages' = add_tool_results(messages, trs)
    /\ UNCHANGED <<sideVars, mcpVars, toolVars, runVars>>

NextConv == ConvAddUser \/ ConvAddAssistant \/ ConvAddToolResults

SpecConv == Init /\ [][NextConv]_vars

(***************************************************************************)
(* SpecTool: execute_tool and respond_permission called directly on one    *)
(* ToolExecutionService, in any order.                                     *)
(***************************************************************************)
ToolExecute ==
    /\ next_tool_use_id <= MaxCalls
    /\ \E shape \in ToolUseShapes, skip_permission \in BOOLEAN, succeeds \in BOOLEAN :
          execute_tool(ToolUse(next_tool_use_id, shape), skip_permission, succeeds)
    /\ next_tool_use_id' = next_tool_use_id + 1
    /\ UNCHANGED <<sideVars, mcpVars, convVars, runVars>>

\* permission id 0 stands for an id that was never handed out
ToolRespond ==
    /\ \E permission_id \in 0..(next_permission_id - 1),
          approved \in BOOLEAN, always \in BOOLEAN :
          respond_permission(permission_id, approved, always)
    /\ UNCHANGED <<sideVars, mcpVars, next_tool_use_id, convVars, runVars>>

NextTool == ToolExecute \/ ToolRespond

SpecTool == Init /\ [][NextTool]_vars

(***************************************************************************)
(* SpecBatch: execute_tools calls on one ToolExecutionService, one at a    *)
(* time, in the parallel and in the sequential mode, with responses to     *)
(* permissions between the calls.  A coroutine of execute_tool runs from   *)
(* its start to the await of Tool.execute without giving way; the tools    *)
(* of a parallel call finish in any order.                                 *)
(***************************************************************************)
\* a variant that places a result by the order in which the tools finish
result_slot_finished(i) ==
    Cardinality({j \in 1..Len(batch.stage) : batch.stage[j] = "done"}) + 1

\* asyncio.gather returns the results in the order of its awaitables;
\* results.append in the order of the loop
result_slot(i) == i

\* execute_tools(tool_uses, parallel): the call
BatchStart ==
    /\ batch.tool_uses = <<>> \/ batch.returned
    /\ \E parallel \in BOOLEAN, n \in 1..MaxBatch :
          /\ next_tool_use_id + n - 1 <= MaxCalls
          /\ \E shapes \in [1..n -> ToolUseShapes] :
                batch' = [parallel |-> parallel,
                          tool_uses |-> [i \in 1..n |->
                               ToolUse(next_tool_use_id + i - 1, shapes[i])],
                          stage |-> [i \in 1..n |-> "pending"],
                          succeeds |-> [i \in 1..n |-> FALSE],
                          own |-> [i \in 1..n |-> NoCall.result],
                          results |-> [i \in 1..n |-> NoCall.result],
                          returned |-> FALSE]
          /\ next_tool_use_id' = next_tool_use_id + n
    /\ UNCHANGED <<pending_permissions, approved_tools, always_approved,
                   next_permission_id, executed, resolved, last_call,
                   convVars, runVars, mcpVars, handlers, provider, oauth>>

\* the coroutine of execute_tool for tool use i, from its start to its
\* return or to the await of Tool.execute; the parallel mode starts the
\* coroutines in the order of the tool uses, the sequential mode starts one
\* when the one before it has returned
BatchExecute(i) ==
    /\ i \in 1..Len(batch.tool_uses)
    /\ batch.stage[i] = "pending"
    /\ \A j \in 1..(i - 1) :
          IF batch.parallel THEN batch.stage[j] # "pending"
          ELSE batch.stage[j] = "done"
    /\ \E succeeds \in BOOLEAN :
          /\ execute_tool(batch.tool_uses[i], FALSE, succeeds)
          /\ IF Len(executed') > Len(executed)
             THEN batch' = [batch EXCEPT !.stage[i] = "executing",
                                         !.succeeds[i] = succeeds,
                                         !.own[i] = last_call'.result]
             ELSE batch' = [batch EXCEPT !.stage[i] = "done",
                                         !.succeeds[i] = succeeds,
                                         !.results[result_slot(i)] =
                                              last_call'.result]
    /\ UNCHANGED <<next_tool_use_id, convVars, runVars, mcpVars, handlers, provider, oauth>>

\* Tool.execute of tool use i returns or raises, and its execute_tool
\* returns the result
BatchFinish(i) ==
    /\ i \in 1..Len(batch.tool_uses)
    /\ batch.stage[i] = "executing"
    /\ batch' = [batch EXCEPT !.stage[i] = "done",
                              !.results[result_slot(i)] = batch.own[i]]
    /\ UNCHANGED <<toolVars, convVars, runVars, mcpVars, handlers, provider, oauth>>

\* execute_tools returns the list
BatchReturn ==
    /\ batch.tool_uses # <<>>
    /\ ~batch.returned
    /\ \A i \in 1..Len(batch.stage) : batch.stage[i] = "done"
    /\ batch' = [batch EXCEPT !.returned = TRUE]
    /\ UNCHANGED <<toolVars, convVars, runVars, mcpVars, handlers, provider, oauth>>

\* respond_permission between two execute_tools calls
BatchRespond ==
    /\ batch.returned
    /\ \E permission_id \in PendingIds, approved \in BOOLEAN, always \in BOOLEAN :
          respond_permission(permission_id, approved, always)
    /\ UNCHANGED <<next_tool_use_id, convVars, runVars, mcpVars, sideVars>>

NextBatch ==
    \/ BatchStart \/ BatchReturn \/ BatchRespond
    \/ \E i \in 1..MaxBatch : BatchExecute(i) \/ BatchFinish(i)

SpecBatch == Init /\ [][NextBatch]_vars

(***************************************************************************)
(* SpecParse: one stream_complete call of the Anthropic or of the OpenAI   *)
(* provider, fed the tool-call events of one response.  A JSON text is a   *)
(* string over the characters "{", "a" and "}"; the objects are the texts  *)
(* "{" "a"* "}", told apart by their members.                              *)
(***************************************************************************)
Fragments == {<<"{">>, <<"a">>, <<"}">>, <<"{", "}">>}

\* the text is a JSON document (an object)
Parses(text) ==
    /\ Len(text) >= 2
    /\ text[1] = "{" /\ text[Len(text)] = "}"
    /\ \A i \in 2..(Len(text) - 1) : text[i] = "a"

\* arguments: the object with n members
Object(n) == [members |-> n]

\* json.loads(text) if text else {}, with JSONDecodeError giving {}
json_loads(text) ==
    IF text = <<>> THEN Object(0)
    ELSE IF Parses(text) THEN Object(Len(text) - 2)
    ELSE Object(0)

\* a variant that keeps the buffer of the tool call before
reset_tool_input_kept(text) == text

\* current_tool_input = ""
reset_tool_input(text) == <<>>

\* the fragments sent so far for tool call id
SentFor(id) ==
    LET hits == {i \in 1..Len(provider.sent) : provider.sent[i].id = id}
    IN IF hits = {} THEN <<>> ELSE provider.sent[CHOOSE i \in hits : TRUE].text

\* history: fragment is sent for tool call id
Send(id, fragment) ==
    IF \E i \in 1..Len(provider.sent) : provider.sent[i].id = id
    THEN [i \in 1..Len(provider.sent) |->
            IF provider.sent[i].id = id
            THEN [id |-> id, text |-> provider.sent[i].text \o fragment]
            ELSE provider.sent[i]]
    ELSE Append(provider.sent, [id |-> id, text |-> fragment])

\* stream_complete is called
StreamStart ==
    /\ provider.name = "none"
    /\ \E name \in {"anthropic", "openai"} :
          provider' = [NoStream EXCEPT !.name = name]
    /\ UNCHANGED <<convVars, toolVars, runVars, mcpVars, handlers, batch, oauth>>

\* Anthropic: content_block_start of a tool_use block
ContentBlockStart ==
    /\ provider.name = "anthropic" /\ ~provider.finished
    /\ provider.current_tool_id = 0
    /\ Len(provider.sent) < MaxToolCalls
    /\ provider' = [provider EXCEPT
          !.current_tool_id = Len(provider.sent) + 1,
          !.current_tool_input = reset_tool_input(@),
          !.sent = Append(@, [id |-> Len(provider.sent) + 1, text |-> <<>>])]
    /\ UNCHANGED <<convVars, toolVars, runVars, mcpVars, handlers, batch, oauth>>

\* Anthropic: content_block_delta with an input_json_delta
InputJsonDelta ==
    /\ provider.name = "anthropic" /\ ~provider.finished
    /\ provider.current_tool_id # 0
    /\ Len(SentFor(provider.current_tool_id)) < MaxFragments
    /\ \E fragment \in Fragments :
          provider' = [provider EXCEPT
             !.current_tool_input = @ \o fragment,
             !.sent = Send(provider.current_tool_id, fragment)]
    /\ UNCHANGED <<convVars, toolVars, runVars, mcpVars, handlers, batch, oauth>>

\* Anthropic: content_block_stop of the tool_use block
ContentBlockStop ==
    /\ provider.name = "anthropic" /\ ~provider.finished
    /\ provider.current_tool_id # 0
    /\ provider' = [provider EXCEPT
          !.tool_uses = Append(@, [id |-> provider.current_tool_id,
                                   arguments |->
                                     json_loads(provider.current_tool_input)]),
          !.current_tool_id = 0,
          !.current_tool_input = reset_tool_input(@)]
    /\ UNCHANGED <<convVars, toolVars, runVars, mcpVars, handlers, batch, oauth>>

\* OpenAI: a chunk whose delta has one tool call, of index idx, with or
\* without an argument fragment
ToolCallChunk ==
    /\ provider.name = "openai" /\ ~provider.finished
    /\ \E idx \in 1..MaxToolCalls, fragment \in Fragments \cup {<<>>} :
          LET calls == provider.current_tool_calls
              known == \E i \in 1..Len(calls) : calls[i].idx = idx
              with == IF known THEN calls
                      ELSE Append(calls, [idx |-> idx, id |-> idx,
                                          arguments |-> <<>>])
          IN
          /\ Len(SentFor(idx)) + Len(fragment) <= MaxFragments
          /\ ~known \/ fragment # <<>>
          /\ provider' = [provider EXCEPT
                !.current_tool_calls =
                   [i \in 1..Len(with) |->
                      IF with[i].idx = idx
                      THEN [with[i] EXCEPT !.arguments = @ \o fragment]
                      ELSE with[i]],
                !.sent = Send(idx, fragment)]
    /\ UNCHANGED <<convVars, toolVars, runVars, mcpVars, handlers, batch, oauth>>

\* OpenAI: the chunk with the finish_reason: every tool call is completed
FinishReason ==
    /\ provider.name = "openai" /\ ~provider.finished
    /\ provider' = [provider EXCEPT
          !.tool_uses = [i \in 1..Len(provider.current_tool_calls) |->
                [id |-> provider.current_tool_calls[i].id,
                 arguments |->
                   json_loads(provider.current_tool_calls[i].arguments)]],
          !.finished = TRUE]
    /\ UNCHANGED <<convVars, toolVars, runVars, mcpVars, handlers, batch, oauth>>

NextParse ==
    \/ StreamStart \/ ContentBlockStart \/ InputJsonDelta \/ ContentBlockStop
    \/ ToolCallChunk \/ FinishReason

SpecParse == Init /\ [][NextParse]_vars

(***************************************************************************)
(* SpecOAuth: the state parameters of one OAuthService.  _states is the    *)
(* set of the dict's items; a state token is its number in the order of    *)
(* generation; the clock counts minutes.                                   *)
(***************************************************************************)
\* a variant of del that leaves the entry in the dict
without_kept(states, state) == states

\* del self._states[state]
without(states, state) == {e \in states : e.state # state}

\* self._states[state]
state_data_of(states, state) == (CHOOSE e \in states : e.state = state).data

\* datetime.now() > expires_at
expired(now, data) == now > data.expires_at

OAuthCall(op, state, is_valid, state_data, removed) ==
    [op |-> op, state |-> state, is_valid |-> is_valid,
     state_data |-> state_data, removed |-> removed]

\* time passes between two calls
ClockTick ==
    /\ oauth.now + ClockStep <= MaxClock
    /\ oauth' = [oauth EXCEPT !.now = @ + ClockStep]
    /\ UNCHANGED <<convVars, toolVars, runVars, mcpVars, handlers, batch, provider>>

generate_state(server_name) ==
    /\ Len(oauth.issued) < MaxStates
    /\ LET state == Len(oauth.issued) + 1
           data == [server_name |-> server_name,
                    expires_at |-> oauth.now + STATE_TTL_MINUTES]
       IN oauth' = [oauth EXCEPT
             !._states = without(@, state) \cup {[state |-> state, data |-> data]},
             !.issued = Append(@, data),
             !.call = OAuthCall("generate_state", state, FALSE, NoStateData, 0)]
    /\ UNCHANGED <<convVars, toolVars, runVars, mcpVars, handlers, batch, provider>>

validate_state(state) ==
    /\ IF state \notin {e.state : e \in oauth._states}
       THEN oauth' = [oauth EXCEPT
               !.call = OAuthCall("validate_state", state, FALSE, NoStateData, 0)]
       ELSE LET state_data == state_data_of(oauth._states, state)
            IN IF expired(oauth.now, state_data)
               THEN oauth' = [oauth EXCEPT
                       !._states = without(@, state),
                       !.deleted = @ \cup ({state} \ {e.state : e \in without(oauth._states, state)}),
                       !.call = OAuthCall("validate_state", state, FALSE,
                                          NoStateData, 0)]
               ELSE oauth' = [oauth EXCEPT
                       !._states = without(@, state),
                       !.deleted = @ \cup ({state} \ {e.state : e \in without(oauth._states, state)}),
                       !.accepted = @ \cup {state},
                       !.call = OAuthCall("validate_state", state, TRUE,
                                          state_data, 0)]
    /\ UNCHANGED <<convVars, toolVars, runVars, mcpVars, handlers, batch, provider>>

RECURSIVE delete_all(_, _)
\* for state in expired: del self._states[state]
delete_all(states, expired_states) ==
    IF expired_states = {} THEN states
    ELSE LET state == CHOOSE t \in expired_states : TRUE
         IN delete_all(without(states, state), expired_states \ {state})

cleanup_expired_states ==
    /\ LET expired_states == {e.state : e \in {d \in oauth._states :
                                                  expired(oauth.now, d.data)}}
           left == delete_all(oauth._states, expired_states)
       IN oauth' = [oauth EXCEPT
             !._states = left,
             !.deleted = @ \cup (expired_states \ {e.state : e \in left}),
             !.call = OAuthCall("cleanup_expired_states", 0, FALSE,
                                NoStateData, Cardinality(expired_states))]
    /\ UNCHANGED <<convVars, toolVars, runVars, mcpVars, handlers, batch, provider>>

NextOAuth ==
    \/ ClockTick
    \/ \E server_name \in 1..MaxServers : generate_state(server_name)
    \/ \E state \in Tokens : validate_state(state)
    \/ cleanup_expired_states

SpecOAuth == Init /\ [][NextOAuth]_vars

(***************************************************************************)
(* SpecOrch: one StreamingHandler.  A run is a call of process_prompt or   *)
(* continue_after_permission, consumed to its end; each action is one      *)
(* stretch of the generator between two suspension points.  The text of a  *)
(* message is the number of its deltas; token counts are left out.         *)
(***************************************************************************)
SSEEvent(type, tag, id) == [type |-> type, tag |-> tag, id |-> id]

NoResult == LLMToolResult(0, "none", FALSE, 0)

\* a variant that yields the event of the first result only
ToolResultEvents_first(trs) ==
    IF trs = <<>> THEN <<>>
    ELSE <<SSEEvent("tool_result", IF trs[1].is_error THEN "error" ELSE "ok",
                    trs[1].tool_use_id)>>

\* for result in tool_results: yield tool_result
ToolResultEvents(trs) ==
    [i \in 1..Len(trs) |-> SSEEvent("tool_result",
                                    IF trs[i].is_error THEN "error" ELSE "ok",
                                    trs[i].tool_use_id)]

\* a run: the call, its arguments and how it stands.  target is history: the
\* tool use of the permission an approving call found pending, when that tool
\* use is among the pending tool uses of the conversation (else 0).
Run(kind, status, permission_id, approved, target) ==
    [kind |-> kind, status |-> status, permission_id |-> permission_id,
     approved |-> approved, target |-> target]

Running(kind) == Run(kind, "running", 0, FALSE, 0)

Ended(status) == [run EXCEPT !.status = status]

\* the end of a run: the generator is exhausted and its locals are gone
Return(status) ==
    /\ run' = Ended(status)
    /\ pc' = "idle"
    /\ iteration' = 0
    /\ accumulated_text' = 0
    /\ tool_uses' = <<>>
    /\ tool_results' = <<>>

\* process_prompt up to the loop: the user message and its event
ProcessPrompt ==
    /\ pc = "idle"
    /\ prompts + continues < MaxRuns
    /\ prompts' = prompts + 1
    /\ messages' = add_user_message(messages, "prompt")
    /\ events' = <<SSEEvent("message", "user", 0)>>
    /\ iteration' = 0
    /\ accumulated_text' = 0
    /\ tool_uses' = <<>>
    /\ tool_results' = <<>>
    /\ stream_error' = FALSE
    /\ run' = Running("process_prompt")
    /\ pc' = "loop"
    /\ UNCHANGED <<sideVars, mcpVars, toolVars, continues>>

\* a variant of the loop condition that admits one more round
loop_continues_inclusive == iteration <= max_tool_iterations

\* while iteration < self.max_tool_iterations
loop_continues == iteration < max_tool_iterations

\* the head of the while loop: iteration += 1, status thinking
LoopHead ==
    /\ pc = "loop"
    /\ IF loop_continues
       THEN /\ iteration' = iteration + 1
            /\ accumulated_text' = 0
            /\ tool_uses' = <<>>
            /\ events' = Append(events, SSEEvent("status", "thinking", 0))
            /\ pc' = "stream"
       ELSE /\ pc' = "final"
            /\ UNCHANGED <<iteration, accumulated_text, tool_uses, events>>
    /\ UNCHANGED <<sideVars, mcpVars, convVars, toolVars, run, tool_results, stream_error,
                   prompts, continues>>

\* a TEXT_DELTA event with text, for a provider that sends at most limit of
\* them in a round
StreamTextDeltaOf(limit) ==
    /\ pc = "stream"
    /\ accumulated_text < limit
    /\ accumulated_text' = accumulated_text + 1
    /\ events' = Append(events, SSEEvent("stream_chunk", "", accumulated_text + 1))
    /\ UNCHANGED <<sideVars, mcpVars, convVars, toolVars, pc, run, iteration, tool_uses,
                   tool_results, stream_error, prompts, continues>>

StreamTextDelta == StreamTextDeltaOf(MaxDeltas)

\* a TOOL_USE_START event and the TOOL_USE_END event of the same tool use,
\* for a provider that requests tool uses of the given shapes, limit in all
StreamToolUseOf(shapes, limit) ==
    /\ pc = "stream"
    /\ next_tool_use_id <= limit
    /\ \E shape \in shapes :
          tool_uses' = Append(tool_uses, ToolUse(next_tool_use_id, shape))
    /\ events' = events \o <<SSEEvent("tool_call", "started", next_tool_use_id),
                             SSEEvent("tool_call", "complete", next_tool_use_id)>>
    /\ next_tool_use_id' = next_tool_use_id + 1
    /\ UNCHANGED <<sideVars, mcpVars, convVars, pending_permissions, approved_tools, always_approved,
                   next_permission_id, executed, resolved, last_call,
                   pc, run, iteration, accumulated_text, tool_results,
                   stream_error, prompts, continues>>

StreamToolUse == StreamToolUseOf(ToolUseShapes, MaxToolUses)

\* an ERROR event, or an exception out of the provider stream
StreamError ==
    /\ pc = "stream"
    /\ \E how \in {"event", "exception"} :
          /\ events' = Append(events, SSEEvent("error", how, 0))
          /\ stream_error' = (how = "event")
    /\ Return("returned")
    /\ UNCHANGED <<sideVars, mcpVars, convVars, toolVars, prompts, continues>>

\* the stream is exhausted: the assistant message, and executing_tools when
\* the round has tool uses
StreamEnd ==
    /\ pc = "stream"
    /\ messages' = add_assistant_message(messages, accumulated_text, tool_uses)
    /\ IF tool_uses # <<>>
       THEN /\ events' = Append(events, SSEEvent("status", "executing_tools", 0))
            /\ tool_results' = <<>>
            /\ pc' = "exec"
       ELSE /\ pc' = "final"
            /\ UNCHANGED <<events, tool_results>>
    /\ UNCHANGED <<sideVars, mcpVars, toolVars, run, iteration, accumulated_text, tool_uses,
                   stream_error, prompts, continues>>

\* _execute_tools: the next tool use of the round, in order
ExecuteNext ==
    /\ pc = "exec"
    /\ Len(tool_results) < Len(tool_uses)
    /\ \E succeeds \in BOOLEAN :
          execute_tool(tool_uses[Len(tool_results) + 1], FALSE, succeeds)
    /\ tool_results' = Append(tool_results, last_call'.result)
    /\ UNCHANGED <<sideVars, mcpVars, convVars, next_tool_use_id, pc, run, iteration,
                   accumulated_text, tool_uses, events, stream_error,
                   prompts, continues>>

\* a variant that never sees a pending permission
has_pending_never == FALSE

\* has_pending = bool(self.tool_service.get_pending_permissions())
has_pending == get_pending_permissions # {}

\* after _execute_tools: suspend on a pending permission, or emit and append
\* the tool results and go round again
ExecuteDone ==
    /\ pc = "exec"
    /\ Len(tool_results) = Len(tool_uses)
    /\ IF has_pending
       THEN /\ events' = Append(events, SSEEvent("status", "waiting_permission",
                                         Cardinality(get_pending_permissions)))
            /\ Return("returned")
            /\ UNCHANGED messages
       ELSE /\ events' = events \o ToolResultEvents(tool_results)
            /\ messages' = add_tool_results(messages, tool_results)
            /\ pc' = "loop"
            /\ UNCHANGED <<run, iteration, accumulated_text, tool_uses,
                           tool_results>>
    /\ UNCHANGED <<sideVars, mcpVars, toolVars, stream_error, prompts, continues>>

\* the final assistant message event and the complete event
Final ==
    /\ pc = "final"
    /\ events' = events \o <<SSEEvent("message", "assistant", accumulated_text),
                             SSEEvent("complete", "", 0)>>
    /\ Return("returned")
    /\ UNCHANGED <<sideVars, mcpVars, convVars, toolVars, stream_error, prompts, continues>>

\* continue_after_permission up to its first suspension point: the response
\* to the permission; on a denial the search of the pending permissions for
\* the id, and the end of the run; on an approval the pending tool uses
ContinueAfterPermission ==
    /\ pc = "idle"
    /\ prompts + continues < MaxRuns
    /\ continues' = continues + 1
    /\ iteration' = 0
    /\ accumulated_text' = 0
    /\ stream_error' = FALSE
    /\ tool_results' = <<>>
    /\ \E permission_id \in 0..(next_permission_id - 1),
          approved \in BOOLEAN, always \in BOOLEAN :
          /\ respond_permission(permission_id, approved, always)
          /\ IF ~approved
             THEN LET denied == {p \in get_pending_permissions' : p.id = permission_id} IN
                  /\ IF denied # {}
                     THEN LET p == CHOOSE q \in denied : TRUE IN
                          /\ messages' = add_tool_results(messages,
                                 <<LLMToolResult(p.id, "permission_denied", TRUE, 0)>>)
                          /\ events' = <<SSEEvent("tool_result", "error", p.id),
                                         SSEEvent("status", "permission_denied", 0)>>
                     ELSE /\ messages' = messages
                          /\ events' = <<SSEEvent("status", "permission_denied", 0)>>
                  /\ tool_uses' = <<>>
                  /\ run' = Run("continue_after_permission", "returned",
                                permission_id, approved, 0)
                  /\ pc' = "idle"
             ELSE LET pending_tool_uses == get_pending_tool_uses(messages)
                      target == IF permission_id \in PendingIds
                                   /\ \E k \in 1..Len(pending_tool_uses) :
                                         pending_tool_uses[k].id =
                                           PermissionById(permission_id).for_tool_use
                                THEN PermissionById(permission_id).for_tool_use
                                ELSE 0
                  IN
                  /\ messages' = messages
                  /\ events' = <<>>
                  /\ IF pending_tool_uses # <<>>
                     THEN /\ tool_uses' = pending_tool_uses
                          /\ run' = Run("continue_after_permission", "running",
                                        permission_id, approved, target)
                          /\ pc' = "reexec"
                     ELSE /\ tool_uses' = <<>>
                          /\ run' = Run("continue_after_permission", "returned",
                                        permission_id, approved, target)
                          /\ pc' = "idle"
    /\ UNCHANGED <<sideVars, mcpVars, next_tool_use_id, prompts>>

\* execute_tools(parallel=True): gather starts the execute_tool coroutines in
\* the order of the tool uses and returns their results in that order
ExecuteToolsNext ==
    /\ pc \in {"reexec", "cc_exec"}
    /\ Len(tool_results) < Len(tool_uses)
    /\ \E succeeds \in BOOLEAN :
          execute_tool(tool_uses[Len(tool_results) + 1], FALSE, succeeds)
    /\ tool_results' = Append(tool_results, last_call'.result)
    /\ UNCHANGED <<sideVars, mcpVars, convVars, next_tool_use_id, pc, run, iteration,
                   accumulated_text, tool_uses, events, stream_error,
                   prompts, continues>>

\* continue_after_permission after execute_tools: the tool_result events, the
\* tool-result message
ReexecuteDone ==
    /\ pc = "reexec"
    /\ Len(tool_results) = Len(tool_uses)
    /\ events' = events \o ToolResultEvents(tool_results)
    /\ messages' = add_tool_results(messages, tool_results)
    /\ pc' = "cc"
    /\ UNCHANGED <<sideVars, mcpVars, toolVars, run, iteration, accumulated_text, tool_uses,
                   tool_results, stream_error, prompts, continues>>

\* _continue_conversation: status thinking
ContinueConversation ==
    /\ pc = "cc"
    /\ accumulated_text' = 0
    /\ tool_uses' = <<>>
    /\ stream_error' = FALSE
    /\ events' = Append(events, SSEEvent("status", "thinking", 0))
    /\ pc' = "cc_stream"
    /\ UNCHANGED <<sideVars, mcpVars, convVars, toolVars, run, iteration, tool_results,
                   prompts, continues>>

ContinueTextDelta ==
    /\ pc = "cc_stream"
    /\ accumulated_text < MaxDeltas
    /\ accumulated_text' = accumulated_text + 1
    /\ events' = Append(events, SSEEvent("stream_chunk", "", accumulated_text + 1))
    /\ UNCHANGED <<sideVars, mcpVars, convVars, toolVars, pc, run, iteration, tool_uses,
                   tool_results, stream_error, prompts, continues>>

\* a TOOL_USE_END event: the tool use is kept, no event is yielded; for a
\* provider that requests tool uses of the given shapes, limit in all
ContinueToolUseOf(shapes, limit) ==
    /\ pc = "cc_stream"
    /\ next_tool_use_id <= limit
    /\ \E shape \in shapes :
          tool_uses' = Append(tool_uses, ToolUse(next_tool_use_id, shape))
    /\ next_tool_use_id' = next_tool_use_id + 1
    /\ UNCHANGED <<sideVars, mcpVars, convVars, pending_permissions, approved_tools, always_approved,
                   next_permission_id, executed, resolved, last_call,
                   pc, run, iteration, accumulated_text, tool_results, events,
                   stream_error, prompts, continues>>

ContinueToolUse == ContinueToolUseOf(ToolUseShapes, MaxToolUses)

\* an ERROR event: no branch of the loop handles it
ContinueErrorEvent ==
    /\ pc = "cc_stream"
    /\ ~stream_error
    /\ stream_error' = TRUE
    /\ UNCHANGED <<sideVars, mcpVars, convVars, toolVars, pc, run, iteration, accumulated_text,
                   tool_uses, tool_results, events, prompts, continues>>

\* an exception out of the provider stream: nothing catches it
ContinueRaise ==
    /\ pc = "cc_stream"
    /\ Return("raised")
    /\ UNCHANGED <<sideVars, mcpVars, convVars, toolVars, events, stream_error, prompts, continues>>

\* the stream is exhausted: the assistant message; then the tools of the
\* round, or the final message and complete
ContinueStreamEnd ==
    /\ pc = "cc_stream"
    /\ messages' = add_assistant_message(messages, accumulated_text, tool_uses)
    /\ IF tool_uses # <<>>
       THEN /\ tool_results' = <<>>
            /\ pc' = "cc_exec"
            /\ UNCHANGED <<events, run, iteration, accumulated_text, tool_uses>>
       ELSE /\ events' = events \o
                   <<SSEEvent("message", "assistant", accumulated_text),
                     SSEEvent("complete", "", 0)>>
            /\ Return("returned")
    /\ UNCHANGED <<sideVars, mcpVars, toolVars, stream_error, prompts, continues>>

\* the tool results of a nested round are appended and the function calls
\* itself
ContinueExecuteDone ==
    /\ pc = "cc_exec"
    /\ Len(tool_results) = Len(tool_uses)
    /\ messages' = add_tool_results(messages, tool_results)
    /\ pc' = "cc"
    /\ UNCHANGED <<sideVars, mcpVars, toolVars, run, iteration, accumulated_text, tool_uses,
                   tool_results, events, stream_error, prompts, continues>>

NextOrch ==
    \/ ProcessPrompt \/ LoopHead \/ StreamTextDelta \/ StreamToolUse
    \/ StreamError \/ StreamEnd \/ ExecuteNext \/ ExecuteDone \/ Final
    \/ ContinueAfterPermission \/ ExecuteToolsNext \/ ReexecuteDone
    \/ ContinueConversation \/ ContinueTextDelta \/ ContinueToolUse
    \/ ContinueErrorEvent \/ ContinueRaise \/ ContinueStreamEnd
    \/ ContinueExecuteDone

SpecOrch == Init /\ [][NextOrch]_vars

(***************************************************************************)
(* SpecLoop: one process_prompt call against a provider that answers each  *)
(* round with one tool use (a read_file, or a write_file that needs        *)
(* permission) or with none, up to the exhaustion of the while loop        *)
(***************************************************************************)
LoopShapes ==
    {[name |-> "read_file", valid |-> TRUE],
     [name |-> "write_file", valid |-> TRUE]}

FirstPrompt == prompts = 0 /\ ProcessPrompt

RoundToolUse == tool_uses = <<>> /\ StreamToolUseOf(LoopShapes, MaxRoundToolUses)

NextLoop ==
    \/ FirstPrompt \/ LoopHead \/ RoundToolUse \/ StreamError \/ StreamEnd
    \/ ExecuteNext \/ ExecuteDone \/ Final

SpecLoop == Init /\ [][NextLoop]_vars

(***************************************************************************)
(* SpecEvents: one process_prompt call, with up to MaxRoundDeltas text     *)
(* deltas in a round and every shape of tool use                           *)
(***************************************************************************)
RoundTextDelta == StreamTextDeltaOf(MaxRoundDeltas)

NextEvents ==
    \/ FirstPrompt \/ LoopHead \/ RoundTextDelta \/ StreamToolUse
    \/ StreamError \/ StreamEnd \/ ExecuteNext \/ ExecuteDone \/ Final

SpecEvents == Init /\ [][NextEvents]_vars

(***************************************************************************)
(* SpecResume: a process_prompt call whose first round asks for a         *)
(* write_file, which needs permission, and the continue_after_permission   *)
(* calls that follow, against a provider that answers each nested round    *)
(* with a read_file or with no tool use                                    *)
(***************************************************************************)
GatedToolUse ==
    /\ tool_uses = <<>>
    /\ StreamToolUseOf({[name |-> "write_file", valid |-> TRUE]}, 1)

ResumeToolUse ==
    /\ tool_uses = <<>>
    /\ ContinueToolUseOf({[name |-> "read_file", valid |-> TRUE]},
                         MaxResumeToolUses)

NextResume ==
    \/ FirstPrompt \/ LoopHead \/ GatedToolUse \/ StreamEnd \/ ExecuteNext
    \/ ExecuteDone \/ Final \/ ContinueAfterPermission \/ ExecuteToolsNext
    \/ ReexecuteDone \/ ContinueConversation \/ ResumeToolUse
    \/ ContinueStreamEnd \/ ContinueExecuteDone

SpecResume == Init /\ [][NextResume]_vars

(***************************************************************************)
(* SpecMCP: the MCP connection manager, its connections, and the servers   *)
(* at the other end of their transports.                                   *)
(***************************************************************************)
\* MCPConnection.__init__ with the fields of its two subclasses:
\*   handle   self.process / self._client is not None
\*   live     the subprocess runs / the HTTP client is open
\*   reader   self._read_task / self._sse_task: none, running or finished
\*   received the request ids the server has been sent
\*   callers  history: the requests made on it from outside its connect()
\*   malformed  history: the lines that are not JSON its read loop was given
MCPConnection(server_name, server_type) ==
    [server_name |-> server_name, server_type |-> server_type,
     state |-> "disconnected", handle |-> FALSE, live |-> FALSE,
     reader |-> "none", _request_id |-> 0, _pending_requests |-> {},
     received |-> {}, error_message |-> "", callers |-> 0, malformed |-> 0]

\* the configurations connect is called with: server_type, and what becomes
\* of the command or endpoint ("ok", "invalid": empty or with shell
\* characters, "missing": create_subprocess_exec raises)
Configs ==
    {[server_type |-> "stdio", target |-> "ok"],
     [server_type |-> "stdio", target |-> "invalid"],
     [server_type |-> "stdio", target |-> "missing"],
     [server_type |-> "sse", target |-> "ok"],
     [server_type |-> "sse", target |-> "invalid"],
     [server_type |-> "unknown", target |-> "ok"]}

\* what a response carries: a result, a null result, or an error
ResponseKinds == {"result", "null", "error"}

\* a variant that hands out the current id again
_next_request_id_reused(conn) ==
    IF conn._request_id = 0 THEN 1 ELSE conn._request_id

\* MCPConnection._next_request_id: the id it returns (and stores)
_next_request_id(conn) == conn._request_id + 1

\* the send_request calls of one connect(): initialize, the initialized
\* notification, and the three discover calls
HandshakeRequests == 5

\* one send_request call: its id, its future, how far it got (sending,
\* waiting, returned, raised), the id of the response it completed with and
\* what it returned or raised
JSONRPCRequest(conn, id, method, owner) ==
    [conn |-> conn, id |-> id, method |-> method, owner |-> owner,
     status |-> "sending", future |-> "pending", response |-> 0, value |-> ""]

\* send_request up to its first await: the id and the registered future
Registered(conn) ==
    [conn EXCEPT !._request_id = _next_request_id(conn),
                 !._pending_requests = @ \cup {_next_request_id(conn)}]

\* StdioMCPConnection.disconnect raises: process.terminate() on a subprocess
\* that has already exited raises ProcessLookupError
disconnect_raises(conn) ==
    conn.server_type = "stdio" /\ conn.handle /\ ~conn.live

\* StdioMCPConnection.disconnect and SSEMCPConnection.disconnect: the
\* connection after the call (when the call raises, the read task is
\* cancelled and nothing else has changed)
disconnect(conn) ==
    IF disconnect_raises(conn)
    THEN [conn EXCEPT !.reader = IF @ = "none" THEN "none" ELSE "finished"]
    ELSE [conn EXCEPT !.reader = IF @ = "none" THEN "none" ELSE "finished",
                      !.live = FALSE,
                      !.state = "disconnected",
                      !.handle = IF conn.server_type = "stdio" THEN FALSE ELSE @]

\* the connection a registry holds under a name, 0 for none
Lookup(registry, server_name) ==
    LET hits == {i \in 1..Len(registry) : registry[i].server_name = server_name}
    IN IF hits = {} THEN 0 ELSE registry[CHOOSE i \in hits : TRUE].conn

\* self._connections.get(server_name), 0 for None
get_connection(server_name) == Lookup(_connections, server_name)

Store(server_name, c) ==
    IF get_connection(server_name) # 0
    THEN [i \in 1..Len(_connections) |->
            IF _connections[i].server_name = server_name
            THEN [server_name |-> server_name, conn |-> c]
            ELSE _connections[i]]
    ELSE Append(_connections, [server_name |-> server_name, conn |-> c])

\* del self._connections[server_name]
Delete(server_name) ==
    LET Other(e) == e.server_name # server_name IN SelectSeq(_connections, Other)

\* async with self._lock: the lock is held by another call
locked == _lock

\* self._pending_requests[request_id]: the last call registered under the id
RECURSIVE FutureOf(_, _, _)
FutureOf(c, id, n) ==
    IF n = 0 THEN 0
    ELSE IF requests[n].conn = c /\ requests[n].id = id THEN n
    ELSE FutureOf(c, id, n - 1)

\* the request the connect call in progress is waiting for
RECURSIVE HandshakeRequest(_, _)
HandshakeRequest(c, n) ==
    IF n = 0 THEN 0
    ELSE IF requests[n].conn = c /\ requests[n].owner = "connect" THEN n
    ELSE HandshakeRequest(c, n - 1)

Remove(seq, n) == SubSeq(seq, 1, n - 1) \o SubSeq(seq, n + 1, Len(seq))

\* a variant of ping that returns the elapsed time also when the request
\* failed
ping_elapsed(status) == 1

\* MCPConnection.ping: the latency, or -1 when send_request raised
ping(status) == IF status = "returned" THEN 1 ELSE -1

\* MCPConnectionManager.get_health of a registered connection c, from the
\* return of its ping
get_health(c, status) ==
    LET latency == ping(status)
        is_healthy == latency >= 0 /\ connections[c].state = "connected"
    IN [ManagerCall("get_health", connections[c].server_name, c, "returned")
          EXCEPT !.health = MCPHealthStatus(is_healthy, connections[c].state,
                              latency,
                              IF is_healthy THEN ""
                              ELSE connections[c].error_message,
                              status)]

\* MCPConnectionManager.get_health of a name the registry does not hold
get_health_absent(server_name) ==
    [ManagerCall("get_health", server_name, 0, "returned")
       EXCEPT !.health = MCPHealthStatus(FALSE, "disconnected", 0,
                                         "Server not connected", "none")]

\* send_request call n returns or raises: a call of the handshake is kept
\* for the connect call that awaits it, any other call is over
Complete(n, status, response, value) ==
    /\ requests' = IF requests[n].owner = "connect"
                   THEN [requests EXCEPT ![n].status = status,
                                         ![n].response = response,
                                         ![n].value = value]
                   ELSE Remove(requests, n)
    /\ manager_call' = IF requests[n].owner = "get_health"
                       THEN get_health(requests[n].conn, status)
                       ELSE manager_call

\* MCPConnectionManager.connect up to the first request of the handshake:
\* the lock, the disconnect of the registered connection, the new connection
\* object, and connect() of the connection up to initialize's send_request
ManagerConnect ==
    /\ ~locked
    /\ Len(connections) < MaxConns
    /\ \E server_name \in ServerNames, config \in Configs :
          LET old == get_connection(server_name)
              torn == IF old # 0
                      THEN [connections EXCEPT ![old] = disconnect(@)]
                      ELSE connections
              c == Len(connections) + 1
              connection == [MCPConnection(server_name, config.server_type)
                               EXCEPT !.state = "connecting"]
              opened == [connection EXCEPT !.handle = TRUE, !.live = TRUE,
                                           !.reader = "running"]
          IN
          IF old # 0 /\ disconnect_raises(connections[old])
          THEN \* the disconnect raises: the lock is released
               /\ connections' = torn
               /\ manager_call' = ManagerCall("connect", server_name, 0, "raised")
               /\ UNCHANGED <<_lock, connecting, requests>>
          ELSE IF config.server_type = "unknown"
          THEN \* raise ValueError: the lock is released, nothing is stored
               /\ connections' = torn
               /\ manager_call' = ManagerCall("connect", server_name, 0, "raised")
               /\ UNCHANGED <<_lock, connecting, requests>>
          ELSE IF config.target # "ok"
          THEN \* connect() fails before a transport exists
               /\ connections' = Append(torn,
                     [connection EXCEPT !.state = "error",
                                        !.error_message = config.target])
               /\ manager_call' = ManagerCall("connect", server_name, c, "returned")
               /\ UNCHANGED <<_lock, connecting, requests>>
          ELSE /\ connections' = Append(torn, Registered(opened))
               /\ requests' = Append(requests,
                     JSONRPCRequest(c, _next_request_id(opened), "initialize",
                                    "connect"))
               /\ _lock' = TRUE
               /\ connecting' = [conn |-> c, stage |-> "initialize"]
               /\ manager_call' = ManagerCall("connect", server_name, c, "running")
    /\ UNCHANGED <<_connections, convVars, toolVars, runVars, sideVars>>

\* the next handshake request of the connect call in progress
NextHandshake(c, method, stage, state) ==
    /\ connections' = [connections EXCEPT
                         ![c] = Registered([@ EXCEPT !.state = state])]
    /\ requests' = Append(Remove(requests, HandshakeRequest(c, Len(requests))),
          JSONRPCRequest(c, _next_request_id(connections[c]), method, "connect"))
    /\ connecting' = [conn |-> c, stage |-> stage]
    /\ UNCHANGED <<_connections, _lock, manager_call>>

\* connect() of the connection returns False: the manager stores nothing
ConnectFailed(c, error_message) ==
    /\ connections' = [connections EXCEPT
                         ![c].state = "error",
                         ![c].error_message =
                             IF error_message = "" THEN @ ELSE error_message]
    /\ connecting' = NoConnect
    /\ _lock' = FALSE
    /\ requests' = Remove(requests, HandshakeRequest(c, Len(requests)))
    /\ manager_call' = ManagerCall("connect", connections[c].server_name, c,
                                   "returned")
    /\ UNCHANGED _connections

\* the connect call in progress resumes when its request has completed:
\* initialize(), then the three discover calls, then the registry
ConnectStep ==
    /\ connecting.conn # 0
    /\ LET c == connecting.conn
           r == requests[HandshakeRequest(c, Len(requests))]
       IN
       /\ r.status \in {"returned", "raised"}
       /\ CASE connecting.stage = "initialize" ->
                 IF r.status = "raised" THEN ConnectFailed(c, r.value)
                 ELSE IF r.value = "null" THEN ConnectFailed(c, "")
                 ELSE NextHandshake(c, "notifications/initialized",
                                    "initialized", connections[c].state)
            [] connecting.stage = "initialized" ->
                 IF r.status = "raised" THEN ConnectFailed(c, r.value)
                 ELSE NextHandshake(c, "tools/list", "tools", "connected")
            [] connecting.stage = "tools" ->
                 NextHandshake(c, "resources/list", "resources",
                               connections[c].state)
            [] connecting.stage = "resources" ->
                 NextHandshake(c, "prompts/list", "prompts",
                               connections[c].state)
            [] connecting.stage = "prompts" ->
                 /\ _connections' = Store(connections[c].server_name, c)
                 /\ connecting' = NoConnect
                 /\ _lock' = FALSE
                 /\ requests' = Remove(requests, HandshakeRequest(c, Len(requests)))
                 /\ manager_call' = ManagerCall("connect",
                                         connections[c].server_name, c, "returned")
                 /\ UNCHANGED connections
    /\ UNCHANGED <<convVars, toolVars, runVars, sideVars>>

\* MCPConnectionManager.disconnect
ManagerDisconnect ==
    /\ ~locked
    /\ \E server_name \in ServerNames :
          LET c == get_connection(server_name) IN
          IF c = 0
          THEN /\ manager_call' = ManagerCall("disconnect", server_name, 0, "returned")
               /\ UNCHANGED <<connections, _connections>>
          ELSE /\ connections' = [connections EXCEPT ![c] = disconnect(@)]
               /\ IF disconnect_raises(connections[c])
                  THEN /\ manager_call' =
                            ManagerCall("disconnect", server_name, c, "raised")
                       /\ UNCHANGED _connections
                  ELSE /\ manager_call' =
                            ManagerCall("disconnect", server_name, c, "returned")
                       /\ _connections' = Delete(server_name)
    /\ UNCHANGED <<_lock, connecting, requests, convVars, toolVars, runVars, sideVars>>

\* the loop of disconnect_all from entry i of the registry: the connections
\* after it, and whether a disconnect raised
RECURSIVE DisconnectFrom(_, _)
DisconnectFrom(conns, i) ==
    IF i > Len(_connections) THEN [connections |-> conns, raised |-> FALSE]
    ELSE LET c == _connections[i].conn
             after == [conns EXCEPT ![c] = disconnect(@)]
         IN IF disconnect_raises(conns[c])
            THEN [connections |-> after, raised |-> TRUE]
            ELSE DisconnectFrom(after, i + 1)

\* MCPConnectionManager.disconnect_all
ManagerDisconnectAll ==
    /\ ~locked
    /\ LET all == DisconnectFrom(connections, 1) IN
       /\ connections' = all.connections
       /\ IF all.raised
          THEN /\ manager_call' = ManagerCall("disconnect_all", 0, 0, "raised")
               /\ UNCHANGED _connections
          ELSE /\ manager_call' = ManagerCall("disconnect_all", 0, 0, "returned")
               /\ _connections' = <<>>
    /\ UNCHANGED <<_lock, connecting, requests, convVars, toolVars, runVars, sideVars>>

\* send_request of a caller up to its first await, on connection c
CallerRequest(c, method, op, server_name) ==
    /\ connections' = [connections EXCEPT
                         ![c] = [Registered(@) EXCEPT !.callers = @ + 1]]
    /\ requests' = Append(requests,
          JSONRPCRequest(c, _next_request_id(connections[c]), method,
                         IF op = "get_health" THEN op ELSE "caller"))
    /\ manager_call' = ManagerCall(op, server_name, c, "sent")

\* a variant that takes every registered connection for a connected one
is_connected_registered(c) == c # 0

\* connection and connection.state == MCPConnectionState.CONNECTED
is_connected(c) == c # 0 /\ connections[c].state = "connected"

\* MCPConnectionManager.call_tool, get_tools, refresh_tools and get_health
\* up to the first await of the request they make, if they make one
ManagerRequest ==
    /\ \E server_name \in ServerNames,
          op \in {"call_tool", "get_tools", "refresh_tools", "get_health"} :
          LET c == get_connection(server_name)
              connected == is_connected(c)
              method == CASE op = "call_tool" -> "tools/call"
                          [] op = "refresh_tools" -> "tools/list"
                          [] OTHER -> "ping"
              sends == CASE op = "get_tools" -> FALSE
                         [] op = "get_health" -> c # 0 /\ connections[c].handle
                         [] OTHER -> connected /\ connections[c].handle
          IN
          IF sends
          THEN /\ connections[c].callers < MaxRequests
               /\ CallerRequest(c, method, op, server_name)
          ELSE /\ manager_call' =
                    CASE op = "call_tool" ->
                           ManagerCall(op, server_name, c, "raised")
                      [] op = "get_health" ->
                           IF c = 0 THEN get_health_absent(server_name)
                           ELSE get_health(c, "raised")
                      [] OTHER ->
                           ManagerCall(op, server_name, c,
                                IF connected THEN "returned" ELSE "empty")
               /\ UNCHANGED <<connections, requests>>
    /\ UNCHANGED <<_connections, _lock, connecting, convVars, toolVars, runVars, sideVars>>

\* the httpx client of an sse connection after disconnect(): aclose() was
\* called and _client still refers to it
closed_client(conn) ==
    conn.server_type = "sse" /\ conn.handle /\ conn.state = "disconnected"

\* call_tool called directly on a connection object after its disconnect():
\* send_request raises "Not connected" without a process (stdio); an sse
\* connection still has its closed client, the future is registered and
\* post() raises
ConnectionCallTool ==
    /\ \E c \in 1..Len(connections) :
          /\ connections[c].state = "disconnected"
          /\ IF closed_client(connections[c])
             THEN /\ connections[c].callers < MaxRequests
                  /\ connections' = [connections EXCEPT
                        ![c] = [Registered(@) EXCEPT !.callers = @ + 1]]
             ELSE UNCHANGED connections
          /\ manager_call' = ManagerCall("connection.call_tool",
                                         connections[c].server_name, c, "raised")
    /\ UNCHANGED <<_connections, _lock, connecting, requests, convVars, toolVars,
                   runVars, sideVars>>

\* the request line is written and drained (stdio), or the POST is answered
\* with status 200 and no JSON-RPC response in its body (sse)
SendOk ==
    /\ \E n \in 1..Len(requests) :
          LET r == requests[n] IN
          /\ r.status = "sending"
          /\ connections[r.conn].live
          /\ requests' = [requests EXCEPT ![n].status = "waiting"]
          /\ connections' = [connections EXCEPT ![r.conn].received = @ \cup {r.id}]
    /\ UNCHANGED <<manager_call, _connections, _lock, connecting, convVars, toolVars, runVars, sideVars>>

\* stdin.write or drain raises on a transport that is gone (stdio); the POST
\* raises, or is answered with a status other than 200 (sse): the exception
\* leaves send_request, which is past registering its future
SendFail ==
    /\ \E n \in 1..Len(requests) :
          LET r == requests[n] IN
          /\ r.status = "sending"
          /\ connections[r.conn].server_type = "stdio" => ~connections[r.conn].live
          /\ Complete(n, "raised", 0, "send_failed")
    /\ UNCHANGED <<connections, _connections, _lock, connecting,
                   convVars, toolVars, runVars, sideVars>>

\* the POST is answered with a JSON body that has an id (sse): the response
\* to the posted request, returned or raised at once
PostImmediate ==
    /\ \E n \in 1..Len(requests), kind \in ResponseKinds :
          LET r == requests[n] IN
          /\ r.status = "sending"
          /\ connections[r.conn].server_type = "sse"
          /\ connections[r.conn].live
          /\ connections' = [connections EXCEPT
                               ![r.conn]._pending_requests = @ \ {r.id},
                               ![r.conn].received = @ \cup {r.id}]
          /\ Complete(n, IF kind = "error" THEN "raised" ELSE "returned",
                      r.id, kind)
    /\ UNCHANGED <<_connections, _lock, connecting, convVars, toolVars, runVars, sideVars>>

\* _read_loop / _sse_loop dying of an exception: state ERROR
ReaderFailed(conn, error_message) ==
    [conn EXCEPT !.reader = "finished", !.state = "error",
                 !.error_message = error_message]

\* the server answers a request it has received, at any time and any number
\* of times, and the read loop dispatches the line: _handle_message.
\* Setting a future that is already done raises InvalidStateError.
HandleMessage ==
    /\ \E c \in 1..Len(connections), kind \in ResponseKinds :
          \E request_id \in connections[c].received :
             LET conn == connections[c]
                 n == FutureOf(c, request_id, Len(requests))
             IN
             /\ conn.reader = "running"
             /\ conn.live
             /\ IF request_id \in conn._pending_requests
                THEN IF requests[n].future = "pending"
                     THEN /\ connections' = [connections EXCEPT
                                 ![c]._pending_requests = @ \ {request_id}]
                          /\ requests' = [requests EXCEPT
                                 ![n].future = IF kind = "error" THEN "exception"
                                               ELSE "result",
                                 ![n].response = request_id,
                                 ![n].value = kind]
                     ELSE /\ connections' = [connections EXCEPT
                                 ![c] = ReaderFailed(
                                    [conn EXCEPT !._pending_requests = @ \ {request_id}],
                                    "invalid_state")]
                          /\ UNCHANGED requests
                ELSE UNCHANGED <<connections, requests>>
    /\ UNCHANGED <<manager_call, _connections, _lock, connecting, convVars, toolVars, runVars, sideVars>>

\* wait_for returns the result of the future or raises its exception
Resume ==
    /\ \E n \in 1..Len(requests) :
          /\ requests[n].status = "waiting"
          /\ requests[n].future \in {"result", "exception"}
          /\ Complete(n, IF requests[n].future = "result" THEN "returned"
                         ELSE "raised",
                      requests[n].response, requests[n].value)
    /\ UNCHANGED <<connections, _connections, _lock, connecting,
                   convVars, toolVars, runVars, sideVars>>

\* the 30 s of wait_for run out: the future is cancelled
TimeoutFire ==
    /\ \E n \in 1..Len(requests) :
          /\ requests[n].status = "waiting"
          /\ requests[n].future = "pending"
          /\ requests' = [requests EXCEPT ![n].future = "cancelled"]
    /\ UNCHANGED <<manager_call, connections, _connections, _lock, connecting,
                   convVars, toolVars, runVars, sideVars>>

\* except asyncio.TimeoutError: the id is popped and TimeoutError is raised
TimeoutHandle ==
    /\ \E n \in 1..Len(requests) :
          LET r == requests[n] IN
          /\ r.status = "waiting"
          /\ r.future = "cancelled"
          /\ connections' = [connections EXCEPT
                               ![r.conn]._pending_requests = @ \ {r.id}]
          /\ Complete(n, "raised", 0, "timeout")
    /\ UNCHANGED <<_connections, _lock, connecting, convVars, toolVars, runVars, sideVars>>

\* the server process exits by itself
ProcessExit ==
    /\ \E c \in 1..Len(connections) :
          /\ connections[c].server_type = "stdio"
          /\ connections[c].live
          /\ connections' = [connections EXCEPT ![c].live = FALSE]
    /\ UNCHANGED <<manager_call, _connections, _lock, connecting, requests,
                   convVars, toolVars, runVars, sideVars>>

\* readline returns the empty line after the process has exited (stdio), or
\* the server ends the event stream (sse): the loop ends, the state stays
ReadLoopEnd ==
    /\ \E c \in 1..Len(connections) :
          /\ connections[c].reader = "running"
          /\ connections[c].server_type = "stdio" => ~connections[c].live
          /\ connections' = [connections EXCEPT ![c].reader = "finished"]
    /\ UNCHANGED <<manager_call, _connections, _lock, connecting, requests,
                   convVars, toolVars, runVars, sideVars>>

\* the read loop meets an exception other than JSONDecodeError
ReadLoopError ==
    /\ \E c \in 1..Len(connections) :
          /\ connections[c].reader = "running"
          /\ connections' = [connections EXCEPT ![c] = ReaderFailed(@, "read")]
    /\ UNCHANGED <<manager_call, _connections, _lock, connecting, requests,
                   convVars, toolVars, runVars, sideVars>>

\* the lines a server may write that are not JSON: text that json.loads
\* rejects, and bytes that are not UTF-8
MalformedLines == {"not_json", "not_utf8"}

\* the read loop is given a line that is not JSON.  json.loads raises
\* JSONDecodeError, which is logged; line.decode() of the stdio loop raises
\* UnicodeDecodeError, which ends the loop in the outer handler (aiter_lines
\* of the sse loop replaces such bytes)
MalformedLine ==
    /\ \E c \in 1..Len(connections), line \in MalformedLines :
          /\ connections[c].reader = "running"
          /\ connections[c].malformed < MaxMalformed
          /\ connections' = [connections EXCEPT ![c] =
                IF line = "not_utf8" /\ connections[c].server_type = "stdio"
                THEN [ReaderFailed(@, "decode") EXCEPT !.malformed = @ + 1]
                ELSE [@ EXCEPT !.malformed = @ + 1]]
    /\ UNCHANGED <<manager_call, _connections, _lock, connecting, requests,
                   convVars, toolVars, runVars, sideVars>>

\* the manager's connect and disconnect calls, with the handshakes
NextMCP ==
    \/ ManagerConnect \/ ConnectStep \/ ManagerDisconnect
    \/ ManagerDisconnectAll
    \/ SendOk \/ SendFail \/ PostImmediate \/ HandleMessage \/ Resume
    \/ TimeoutFire \/ TimeoutHandle \/ ProcessExit \/ ReadLoopEnd
    \/ ReadLoopError

SpecMCP == Init /\ [][NextMCP]_vars

(***************************************************************************)
(* SpecRPC: one connection of the manager and the requests made on it.     *)
(***************************************************************************)
FirstConnect == connections = <<>> /\ ManagerConnect

NextRPC ==
    \/ FirstConnect \/ ConnectStep \/ ManagerDisconnect \/ ManagerRequest
    \/ ConnectionCallTool
    \/ SendOk \/ SendFail \/ PostImmediate \/ HandleMessage \/ Resume
    \/ TimeoutFire \/ TimeoutHandle \/ ProcessExit \/ ReadLoopEnd
    \/ ReadLoopError

SpecRPC == Init /\ [][NextRPC]_vars

\* one connection and its handshake, with a server that also writes lines
\* that are not JSON
NextRead ==
    \/ FirstConnect \/ ConnectStep \/ ManagerDisconnect \/ MalformedLine
    \/ SendOk \/ SendFail \/ PostImmediate \/ HandleMessage \/ Resume
    \/ TimeoutFire \/ TimeoutHandle \/ ProcessExit \/ ReadLoopEnd
    \/ ReadLoopError

SpecRead == Init /\ [][NextRead]_vars

(***************************************************************************)
(* Properties                                                              *)
(***************************************************************************)
Count(seq, x) == Cardinality({i \in 1..Len(seq) : seq[i] = x})

AssistantIndexes == {i \in 1..Len(messages) : messages[i].role = "assistant"}

LastAssistantIndex == CHOOSE i \in AssistantIndexes : \A j \in AssistantIndexes : j <= i

ResultsAfter(i) == {j \in (i + 1)..Len(messages) : messages[j].tool_results # <<>>}

\* the step is a call of the service (the call record changed)
IsCall(op) == last_call' # last_call /\ last_call'.op = op

Approved == approved_tools \cup always_approved

ToolUseIds(tus) == {tus[k].id : k \in 1..Len(tus)}

ResultIds(trs) == {trs[k].tool_use_id : k \in 1..Len(trs)}

FinalEvents(evs) ==
    /\ Len(evs) >= 2
    /\ evs[Len(evs) - 1].type = "message" /\ evs[Len(evs) - 1].tag = "assistant"
    /\ evs[Len(evs)].type = "complete"

\* the transport a connection opened is live: its subprocess runs or its HTTP
\* client is open, or its read task / stream task runs
Live(conn) == conn.live \/ conn.reader = "running"

LiveTransports(server_name) ==
    {c \in 1..Len(connections) :
        connections[c].server_name = server_name /\ Live(connections[c])}

\* C1: for every server name, whatever the outcomes of the connect calls made
\* so far, at most one transport opened under that name is live.
C1_OneLiveTransport ==
    \A server_name \in ServerNames : Cardinality(LiveTransports(server_name)) <= 1

InFlight(r) == r.status \in {"sending", "waiting"}

\* C2: on every connection the pending-request set holds an id exactly while
\* the send_request call that created it is in flight: an id in the set belongs
\* to a call that has neither returned nor raised, and a call in flight whose
\* future is neither resolved, rejected nor timed out has its id in the set.
C2_PendingWhileInFlight ==
    /\ \A c \in 1..Len(connections) :
          \A request_id \in connections[c]._pending_requests :
             \E n \in 1..Len(requests) :
                /\ requests[n].conn = c /\ requests[n].id = request_id
                /\ InFlight(requests[n])
    /\ \A n \in 1..Len(requests) :
          (InFlight(requests[n]) /\ requests[n].future = "pending")
          => requests[n].id \in connections[requests[n].conn]._pending_requests

\* the send_request calls that got their id in this step
NewRequests ==
    {n \in 1..Len(requests') :
        /\ requests'[n].status = "sending"
        /\ \A m \in 1..Len(requests) : requests[m] # requests'[n]}

C4_SuspendOnPermission ==
    [][(pc = "exec" /\ pc' # "exec"
          /\ \E i \in 1..Len(tool_results) :
                tool_results[i].content = "permission_required")
       => /\ pc' = "idle" /\ run'.status = "returned"
          /\ events[Len(events)] = SSEEvent("status", "executing_tools", 0)
          /\ Len(events') = Len(events) + 1
          /\ SubSeq(events', 1, Len(events)) = events
          /\ events'[Len(events')].type = "status"
          /\ events'[Len(events')].tag = "waiting_permission"
          /\ \A i \in 1..Len(events') :
                /\ events'[i].type # "complete"
                /\ ~(events'[i].type = "message" /\ events'[i].tag = "assistant")
                /\ ~(events'[i].type = "tool_result"
                      /\ events'[i].id \in ToolUseIds(tool_uses))
          /\ messages' = messages
          /\ messages[Len(messages)].role = "assistant"
          /\ messages[Len(messages)].tool_uses = tool_uses]_vars

\* a process_prompt run that ended suspended on a pending permission
C4_Witness ==
    /\ pc = "idle"
    /\ run.kind = "process_prompt" /\ run.status = "returned"
    /\ Len(events) >= 2
    /\ events[Len(events)].tag = "waiting_permission"
    /\ events[Len(events) - 1].tag = "executing_tools"
    /\ pending_permissions # {}
    /\ messages[Len(messages)].tool_uses # <<>>

\* C5: continue_after_permission(permission_id, approved=False) for a pending
\* permission of a suspended run appends an error tool-result for the denied
\* call, emits a tool_result event for it, then status permission_denied, and
\* stops without another provider round.
C5_DenialRecorded ==
    [][(pc = "idle" /\ IsCall("respond_permission") /\ ~last_call'.approved
          /\ last_call'.permission_id \in PendingIds
          /\ PermissionById(last_call'.permission_id).for_tool_use
                \in ToolUseIds(get_pending_tool_uses(messages)))
       => LET denied == PermissionById(last_call'.permission_id).for_tool_use IN
          /\ pc' = "idle"
          /\ Len(messages') = Len(messages) + 1
          /\ \E k \in 1..Len(messages'[Len(messages')].tool_results) :
                /\ messages'[Len(messages')].tool_results[k].is_error
                /\ messages'[Len(messages')].tool_results[k].tool_use_id = denied
          /\ Len(events') = 2
          /\ events'[1].type = "tool_result" /\ events'[1].id = denied
          /\ events'[2] = SSEEvent("status", "permission_denied", 0)]_vars

\* C6: continue_after_permission(id, approved=True), for the pending permission
\* of a tool call of the suspended round, executes that tool call, emits a
\* tool_result event for it, appends the tool results, runs a further provider
\* round, and when a round ends without tool uses the run ends with the final
\* assistant message event followed by complete.
C6_ApprovalResumes ==
    /\ []((run.kind = "continue_after_permission" /\ run.approved
            /\ run.target # 0 /\ pc # "reexec")
           => /\ Cardinality({i \in 1..Len(executed) : executed[i].id = run.target}) = 1
              /\ \E i \in 1..Len(events) :
                    /\ events[i].type = "tool_result" /\ events[i].id = run.target
                    /\ events[i].tag = IF \E j \in 1..Len(messages) :
                                            \E k \in 1..Len(messages[j].tool_results) :
                                               /\ messages[j].tool_results[k].tool_use_id = run.target
                                               /\ messages[j].tool_results[k].is_error
                                       THEN "error" ELSE "ok"
                    /\ (pc # "cc" => \E j \in (i + 1)..Len(events) :
                                        events[j] = SSEEvent("status", "thinking", 0))
              /\ \E i \in 1..Len(messages) : \E j \in (i + 1)..Len(messages) :
                    /\ run.target \in ToolUseIds(messages[i].tool_uses)
                    /\ ResultIds(messages[j].tool_results)
                          = ToolUseIds(messages[i].tool_uses)
              /\ (pc = "idle" /\ run.status = "returned") => FinalEvents(events))
    /\ [][(pc = "cc_stream" /\ pc' # "cc_stream" /\ run'.status # "raised"
            /\ tool_uses = <<>>)
          => /\ pc' = "idle" /\ run'.status = "returned"
             /\ events' = events \o
                   <<SSEEvent("message", "assistant", accumulated_text),
                     SSEEvent("complete", "", 0)>>]_vars

\* an approved continuation that executed the gated tool call and completed
C6_Witness ==
    /\ pc = "idle"
    /\ run.kind = "continue_after_permission" /\ run.approved
    /\ run.target # 0 /\ run.status = "returned"
    /\ \E i \in 1..Len(executed) :
          executed[i].id = run.target /\ requires_permission(executed[i].name)
    /\ FinalEvents(events)

UserPrompt(m) == m.role = "user" /\ m.tool_results = <<>>

\* C7: an assistant message with tool uses is followed, before any later
\* user-prompt message, by a tool-result message answering every tool-use id
\* it contains, unless it is the last message of the conversation.
C7_ToolUsesAnswered ==
    \A i \in 1..Len(messages) :
        (messages[i].role = "assistant" /\ messages[i].tool_uses # <<>>)
        => \/ i = Len(messages)
           \/ \E j \in (i + 1)..Len(messages) :
                 /\ ToolUseIds(messages[i].tool_uses)
                       \subseteq ResultIds(messages[j].tool_results)
                 /\ \A k \in (i + 1)..(j - 1) : ~UserPrompt(messages[k])

\* C8: when the last assistant message carries tool uses and no later message
\* carries tool results, get_pending_tool_uses() is exactly that message's tool
\* uses; once a later message carries tool results it is the empty list.
C8_PendingToolUses ==
    AssistantIndexes # {} =>
        /\ (messages[LastAssistantIndex].tool_uses # <<>>
              /\ ResultsAfter(LastAssistantIndex) = {})
           => get_pending_tool_uses(messages) = messages[LastAssistantIndex].tool_uses
        /\ ResultsAfter(LastAssistantIndex) # {}
           => get_pending_tool_uses(messages) = <<>>

\* a conversation whose last assistant message has tool uses, answered by a
\* later tool-result message
C8_Witness ==
    /\ AssistantIndexes # {}
    /\ messages[LastAssistantIndex].tool_uses # <<>>
    /\ ResultsAfter(LastAssistantIndex) # {}
    /\ get_pending_tool_uses(messages) = <<>>

\* C9 as stated: a tool that requires permission is executed only while its
\* name is in the session-approved or the always-approved set.
C9_ExecutedOnlyWhenApproved ==
    [][Len(executed') > Len(executed) =>
          LET e == executed'[Len(executed')] IN
          requires_permission(e.name) => e.name \in Approved]_vars

\* C9 amended: a tool that requires permission is executed by an execute_tool
\* call that does not pass skip_permission only while its name is in an
\* approved set; a call of a registered gated tool with valid arguments that is
\* not approved (and not skipped) executes nothing, adds exactly one Pending
\* Permission of that tool and returns an error result carrying its id; a name
\* enters an approved set only through an approving respond_permission for a
\* pending permission of that tool.
C9_PermissionGate ==
    /\ [][Len(executed') > Len(executed) =>
            LET e == executed'[Len(executed')] IN
            (requires_permission(e.name) /\ ~last_call'.skip_permission)
                => e.name \in Approved]_vars
    /\ [][(IsCall("execute_tool")
             /\ get_tool(last_call'.tool_name) /\ last_call'.valid
             /\ requires_permission(last_call'.tool_name)
             /\ last_call'.tool_name \notin Approved
             /\ ~last_call'.skip_permission)
          => /\ executed' = executed
             /\ last_call'.result.is_error
             /\ last_call'.result.content = "permission_required"
             /\ last_call'.result.permission_id \notin PendingIds
             /\ \E p \in pending_permissions' :
                   /\ p.id = last_call'.result.permission_id
                   /\ p.tool_name = last_call'.tool_name
                   /\ pending_permissions' = pending_permissions \cup {p}]_vars
    /\ [][\A n \in (approved_tools' \cup always_approved') \ Approved :
             /\ last_call'.op = "respond_permission"
             /\ last_call'.approved
             /\ \E p \in pending_permissions :
                   p.id = last_call'.permission_id /\ p.tool_name = n]_vars

\* a gated tool was blocked, then approved, then executed
C9_Witness ==
    /\ Len(resolved) > 0
    /\ approved_tools # {}
    /\ \E i \in 1..Len(executed) : requires_permission(executed[i].name)
    /\ last_call.op = "execute_tool" /\ ~last_call.skip_permission
    /\ last_call.result.content = "output"
    /\ requires_permission(last_call.tool_name)

\* C10: a Pending Permission is resolved exactly once: the first
\* respond_permission for its id removes it and applies the decision; a later
\* one for the same id, or one for an unknown id, returns not-found and changes
\* neither the pending set nor the approved sets; a denial adds no tool name to
\* an approved set, also with always=True.
C10_ResolvedOnce ==
    /\ [](\A id \in 1..(next_permission_id - 1) :
             /\ Count(resolved, id) <= 1
             /\ (id \in PendingIds <=> Count(resolved, id) = 0))
    /\ [][IsCall("respond_permission") =>
            LET c == last_call' IN
            IF c.permission_id \in PendingIds
            THEN LET p == PermissionById(c.permission_id) IN
                 /\ c.found
                 /\ pending_permissions' = pending_permissions \ {p}
                 /\ always_approved' = IF c.approved /\ c.always
                                       THEN always_approved \cup {p.tool_name}
                                       ELSE always_approved
                 /\ approved_tools' = IF c.approved /\ ~c.always
                                      THEN approved_tools \cup {p.tool_name}
                                      ELSE approved_tools
            ELSE /\ ~c.found
                 /\ UNCHANGED <<pending_permissions, approved_tools,
                                always_approved>>]_vars

\* a second respond_permission for an id that was already resolved, after a
\* denial with always=True
C10_Witness ==
    /\ last_call.op = "respond_permission"
    /\ ~last_call.found
    /\ Count(resolved, last_call.permission_id) = 1
    /\ last_call.approved /\ last_call.always
    /\ Approved = {}

\* the state changes of a connection the state machine allows
AllowedTransitions ==
    {<<"disconnected", "connecting">>, <<"connecting", "connected">>,
     <<"connecting", "error">>, <<"connected", "disconnected">>,
     <<"connected", "error">>}

\* C11: every change of a connection's state is disconnected to connecting,
\* connecting to connected, connecting to error, connected to disconnected or
\* connected to error (a connection object is constructed disconnected, and a
\* connect() that fails before it has a transport goes through connecting).
C11_StateTransitions ==
    [][\A c \in 1..Len(connections') :
          IF c <= Len(connections)
          THEN connections'[c].state # connections[c].state
               => <<connections[c].state, connections'[c].state>>
                     \in AllowedTransitions
          ELSE connections'[c].state \in {"connecting", "error"}]_vars

\* C12: the handshake is initialize, then the initialized notification, then
\* the list requests, and no response to the notification is expected: when
\* the server has answered initialize and never replies to
\* notifications/initialized, connect() goes on to the list requests and the
\* connection reaches state connected.
C12_NotificationNeedsNoReply ==
    [][(connecting.stage = "initialized" /\ connecting'.stage # "initialized")
       => LET c == connecting.conn
              r == requests[HandshakeRequest(c, Len(requests))]
          IN (r.method = "notifications/initialized" /\ r.response = 0
                /\ r.value = "timeout")
             => /\ connections'[c].state = "connected"
                /\ connecting' = [conn |-> c, stage |-> "tools"]]_vars

\* the connection a connect call of the manager returns in this step (0: no
\* connect call returns): the one whose handshake ends, or the one that
\* failed before it had a transport
ConnectReturns ==
    IF connecting.conn # 0 /\ connecting'.conn = 0 THEN connecting.conn
    ELSE IF Len(connections') > Len(connections) /\ connecting'.conn = 0
    THEN Len(connections')
    ELSE 0

\* C13: when MCPConnectionManager.connect(name, cfg) returns, the registry
\* entry of name is the connection it returns, whether that connection is in
\* state connected or in state error.
C13_RegistryRetainsConnection ==
    [][ConnectReturns # 0
       => Lookup(_connections', connections'[ConnectReturns].server_name)
             = ConnectReturns]_vars

\* C14: disconnecting is idempotent at both levels: disconnect() of a
\* connection never raises, leaves the connection disconnected, and a second
\* disconnect() changes nothing more; the manager's disconnect(name) does not
\* raise, and changes nothing for a name it does not hold
C14_DisconnectIdempotent ==
    [][/\ \A c \in 1..Len(connections) :
            /\ ~disconnect_raises(connections[c])
            /\ disconnect(connections[c]).state = "disconnected"
            /\ disconnect(disconnect(connections[c])) = disconnect(connections[c])
       /\ (/\ manager_call'.op = "disconnect"
           /\ <<connections, _connections, manager_call>>'
                # <<connections, _connections, manager_call>>)
          => /\ manager_call'.outcome = "returned"
             /\ manager_call'.conn = 0 => UNCHANGED <<connections, _connections>>
             /\ manager_call'.conn # 0
                => connections'[manager_call'.conn].state = "disconnected"]_vars

\* C15: in any run, of process_prompt or of continue_after_permission, when
\* the provider stream yields an ERROR event or raises, an error event is
\* emitted and the run ends there: the error event is the last event of the
\* run, with no final message and no complete after it
C15_ErrorEndsRun ==
    [][(\/ ~stream_error /\ stream_error'
        \/ pc = "stream" /\ pc' = "idle"
        \/ run.status = "running" /\ run'.status = "raised")
       => /\ pc' = "idle"
          /\ events' # <<>>
          /\ events'[Len(events')].type = "error"]_vars

\* the provider rounds of the run so far: each starts with a thinking status
Rounds == Count(events, SSEEvent("status", "thinking", 0))

\* C16: a process_prompt run performs at most max_tool_iterations provider
\* rounds; when the tool results of the last admitted round have been
\* appended the loop is left without another round, and the run then emits
\* the final assistant message event and complete and ends
C16_BoundedRounds ==
    /\ [](Rounds <= max_tool_iterations /\ iteration <= max_tool_iterations)
    /\ [][(pc = "loop" /\ iteration = max_tool_iterations)
          => /\ pc' = "final"
             /\ UNCHANGED <<events, messages>>]_vars
    /\ [][pc = "final"
          => /\ pc' = "idle" /\ run'.status = "returned"
             /\ FinalEvents(events')
             /\ SubSeq(events', 1, Len(events)) = events
             /\ Len(events') = Len(events) + 2]_vars

\* a run that made max_tool_iterations rounds, each with a tool use, and
\* ended with the tool results of the last round as the last message
C16_Witness ==
    /\ pc = "idle" /\ run.status = "returned"
    /\ Rounds = max_tool_iterations
    /\ Count(events, SSEEvent("status", "executing_tools", 0)) = max_tool_iterations
    /\ messages[Len(messages)].tool_results # <<>>
    /\ FinalEvents(events)

Thinking == SSEEvent("status", "thinking", 0)

\* the index of the thinking status that starts the round of event i, 0 when
\* no round has started before it
RoundStart(i) ==
    LET starts == {j \in 1..i : events[j] = Thinking}
    IN IF starts = {} THEN 0 ELSE CHOOSE j \in starts : \A k \in starts : k <= j

\* the indexes of the events of the round of event i with the given type and
\* tag, up to index n
InRound(i, n, type, tag) ==
    {j \in RoundStart(i)..n :
        /\ j > 0 /\ RoundStart(j) = RoundStart(i)
        /\ events[j].type = type /\ events[j].tag = tag}

\* C17: the events of a process_prompt run are ordered: the user message
\* event is first; every later event lies in a round that a thinking status
\* started; the k-th stream_chunk of a round carries the text accumulated
\* from the k deltas of that round; the tool_call complete events of a round
\* precede its executing_tools status, which precedes its tool_result events,
\* one per tool use; complete is emitted at most once, last, directly after
\* the final assistant message event
C17_EventOrder ==
    run.kind = "process_prompt"
    => /\ events # <<>>
       /\ events[1] = SSEEvent("message", "user", 0)
       /\ Len(events) >= 2 => events[2] = Thinking
       /\ \A i \in 2..Len(events) :
            /\ events[i] # SSEEvent("message", "user", 0)
            /\ RoundStart(i) > 0
            /\ events[i].type = "stream_chunk"
               => events[i].id = Cardinality({j \in RoundStart(i)..i :
                                                events[j].type = "stream_chunk"})
            /\ events[i] = SSEEvent("status", "executing_tools", 0)
               => /\ InRound(i, i - 1, "tool_call", "complete") # {}
                  /\ InRound(i, i, "status", "executing_tools") = {i}
                  /\ \A j \in (i + 1)..Len(events) :
                        RoundStart(j) = RoundStart(i)
                        => events[j].type \notin {"tool_call", "stream_chunk"}
            /\ events[i].type = "tool_result"
               => LET calls == InRound(i, Len(events), "tool_call", "complete")
                      results == {j \in RoundStart(i)..Len(events) :
                                    /\ RoundStart(j) = RoundStart(i)
                                    /\ events[j].type = "tool_result"}
                  IN /\ \E e \in InRound(i, i - 1, "status", "executing_tools") :
                          \A c \in calls : c < e
                     /\ Cardinality(results) = Cardinality(calls)
                     /\ {events[j].id : j \in results} = {events[c].id : c \in calls}
            /\ events[i].type = "complete"
               => /\ i = Len(events)
                  /\ events[i - 1].type = "message"
                  /\ events[i - 1].tag = "assistant"
       /\ Cardinality({i \in 1..Len(events) : events[i].type = "complete"}) <= 1

\* a finished run whose first round had two text deltas and two tool uses,
\* executed them and emitted their results, and whose last round ended it
C17_Witness ==
    /\ run.kind = "process_prompt" /\ pc = "idle"
    /\ \E i \in 1..Len(events) :
          /\ events[i] = SSEEvent("stream_chunk", "", 2)
          /\ Cardinality(InRound(i, Len(events), "tool_call", "complete")) = 2
          /\ \E j \in (i + 1)..Len(events) :
                events[j].type = "tool_result" /\ RoundStart(j) = RoundStart(i)
    /\ events[Len(events)].type = "complete"

\* C18: the runs on one session are serialized: the messages one handler's
\* run appended to the shared conversation are never interleaved with the
\* messages of another handler's run
C18_RunsSerialized ==
    \A g, h \in Handlers :
        g # h
        => \/ \A i \in handlers[g].appended, j \in handlers[h].appended : i < j
           \/ \A i \in handlers[g].appended, j \in handlers[h].appended : j < i

\* while a connect call holds the registry lock, no step changes the
\* registry, constructs a connection or completes another manager call
LockExcludes ==
    (_lock /\ _lock')
    => /\ UNCHANGED <<_connections, manager_call>>
       /\ Len(connections') = Len(connections)

\* a connect call, when it acquires the lock, disconnects the connection
\* registered under its name
ConnectDisconnectsRegistered ==
    (/\ ~_lock
     /\ manager_call'.op = "connect"
     /\ manager_call' # manager_call \/ Len(connections') > Len(connections))
    => LET old == get_connection(manager_call'.server_name)
       IN old # 0 => connections'[old].state = "disconnected"

\* when disconnect_all returns the registry is empty and every connection
\* it held is disconnected
DisconnectAllEmpties ==
    (/\ manager_call'.op = "disconnect_all"
     /\ manager_call'.outcome = "returned"
     /\ <<manager_call, connections, _connections>>'
          # <<manager_call, connections, _connections>>)
    => /\ _connections' = <<>>
       /\ \A i \in 1..Len(_connections) :
             connections'[_connections[i].conn].state = "disconnected"

\* C19: connect, disconnect and disconnect_all of the manager exclude each
\* other through the registry lock; of two connect calls for a name the
\* later disconnects the connection the earlier registered; after
\* disconnect_all returns the registry is empty and every connection it held
\* is disconnected
C19_RegistrySerialized ==
    [][LockExcludes /\ ConnectDisconnectsRegistered /\ DisconnectAllEmpties]_vars

\* the step is a call of the given kind on the manager or on a connection
Called(op) == manager_call' # manager_call /\ manager_call'.op = op

\* the connection registered under the name of the call is absent or not in
\* state connected
NotConnected ==
    LET c == get_connection(manager_call'.server_name)
    IN c = 0 \/ connections[c].state # "connected"

\* C20: a call on a server that is absent from the registry or not in state
\* connected does not wait: call_tool of the manager raises and sends
\* nothing, get_tools and refresh_tools return the empty list and send
\* nothing, and call_tool of a connection after its disconnect raises
\* without a request of its own left waiting for a response
C20_NotConnectedNeverHangs ==
    [][/\ (Called("call_tool") /\ NotConnected)
          => /\ manager_call'.outcome = "raised"
             /\ UNCHANGED <<connections, requests>>
       /\ ((Called("get_tools") \/ Called("refresh_tools")) /\ NotConnected)
          => /\ manager_call'.outcome = "empty"
             /\ UNCHANGED <<connections, requests>>
       /\ Called("connection.call_tool")
          => /\ manager_call'.outcome = "raised"
             /\ UNCHANGED requests]_vars

\* call_tool of the manager raised for a registered connection that is not
\* connected, which still has its transport
C20_Witness ==
    /\ manager_call.op = "call_tool" /\ manager_call.outcome = "raised"
    /\ manager_call.conn # 0
    /\ get_connection(manager_call.server_name) = manager_call.conn
    /\ connections[manager_call.conn].state # "connected"
    /\ connections[manager_call.conn].handle

\* the content execute_tool gives a tool use on its own, given the approvals
\* and the outcome of its Tool.execute
OwnContent(tu, succeeds) ==
    IF tu.name \notin ToolNames THEN "unknown_tool"
    ELSE IF ~tu.valid THEN "invalid_arguments"
    ELSE IF requires_permission(tu.name)
            /\ tu.name \notin approved_tools \cup always_approved
    THEN "permission_required"
    ELSE IF succeeds THEN "output" ELSE "error"

\* C21: the list execute_tools returns has one result per tool use, in the
\* order of the tool uses, each with the id of its tool use, in the parallel
\* and in the sequential mode; an unknown tool, invalid arguments or a
\* failing execution flags the result of that tool use only, and every
\* result is the one its tool use gets on its own
C21_OneResultPerToolUse ==
    [][(~batch.returned /\ batch'.returned)
       => /\ Len(batch'.results) = Len(batch.tool_uses)
          /\ \A i \in 1..Len(batch.tool_uses) :
               /\ batch'.results[i].tool_use_id = batch.tool_uses[i].id
               /\ batch'.results[i].content
                    = OwnContent(batch.tool_uses[i], batch.succeeds[i])
               /\ batch'.results[i].is_error
                    = (batch'.results[i].content # "output")]_vars

\* a parallel call returned for two tool uses of which the first is invalid
\* and the second ran successfully
C21_Witness ==
    /\ batch.returned /\ batch.parallel
    /\ Len(batch.tool_uses) = 2
    /\ batch.results[1].content \in {"unknown_tool", "invalid_arguments", "error"}
    /\ batch.results[2].content = "output"

\* C22: the ToolUse of every TOOL_USE_END event has the arguments that the
\* fragments sent for its own tool call give: the object they concatenate
\* to when that is a JSON object, and the empty object when it does not
\* parse
C22_ArgumentsOfOwnFragments ==
    \A k \in 1..Len(provider.tool_uses) :
        LET tu == provider.tool_uses[k]
            text == SentFor(tu.id)
        IN /\ \E i \in 1..Len(provider.sent) : provider.sent[i].id = tu.id
           /\ tu.arguments = IF Parses(text) THEN Object(Len(text) - 2)
                             ELSE Object(0)

\* a response with two tool calls: the first got fragments that do not
\* parse, the second fragments that concatenate to an object with a member
C22_Witness ==
    /\ Len(provider.tool_uses) = 2
    /\ ~Parses(SentFor(provider.tool_uses[1].id))
    /\ SentFor(provider.tool_uses[1].id) # <<>>
    /\ provider.tool_uses[1].arguments = Object(0)
    /\ provider.tool_uses[2].arguments = Object(1)

\* C23: a line that is not JSON is skipped: the read loop that was given it
\* is still running, the state of the connection, its pending requests and
\* the waiting send_request calls are as before
C23_MalformedLineSkipped ==
    [][\A c \in 1..Len(connections) :
          (/\ c <= Len(connections')
           /\ connections'[c].malformed > connections[c].malformed)
          => /\ connections'[c]
                  = [connections[c] EXCEPT !.malformed = @ + 1]
             /\ connections'[c].reader = "running"
             /\ UNCHANGED requests]_vars

\* C24: get_health does not raise.  For a name the registry does not hold
\* it reports unhealthy, state disconnected and a not-connected error; for a
\* registered connection it reports healthy exactly when the latency of the
\* ping is not negative and the connection is connected, and the latency is
\* the negative sentinel whenever the request of the ping did not return
C24_HealthReport ==
    [][(manager_call' # manager_call /\ manager_call'.op = "get_health"
        /\ manager_call'.outcome # "sent")
       => LET h == manager_call'.health
              c == manager_call'.conn
          IN /\ manager_call'.outcome = "returned"
             /\ IF c = 0
                THEN /\ get_connection(manager_call'.server_name) = 0
                     /\ ~h.is_healthy
                     /\ h.state = "disconnected"
                     /\ h.error = "Server not connected"
                ELSE /\ h.state = connections'[c].state
                     /\ h.is_healthy = (h.latency >= 0 /\ h.state = "connected")
                     /\ (h.latency < 0) = (h.ping # "returned")
                     /\ h.latency # 0]_vars

\* get_health reported a connected connection unhealthy because the request
\* of its ping timed out or failed
C24_Witness ==
    /\ manager_call.op = "get_health" /\ manager_call.outcome = "returned"
    /\ manager_call.conn # 0
    /\ manager_call.health.state = "connected"
    /\ manager_call.health.ping = "raised"
    /\ ~manager_call.health.is_healthy

\* C25: an OAuth state token is single-use.  Whatever generate_state,
\* validate_state and cleanup_expired_states calls came before, a
\* validate_state call returns valid only for a token that was generated, has
\* not expired, and was not removed by an earlier validation or by cleanup, so
\* no token is accepted twice; for an unknown, an already validated or an
\* expired token it returns (False, None).
C25_StateSingleUse ==
    [][\A state \in Tokens : validate_state(state) =>
         LET r == oauth'.call
             generated == state \in 1..Len(oauth.issued)
         IN /\ r.is_valid =>
                 /\ generated
                 /\ state \notin oauth.accepted
                 /\ state \notin oauth.deleted
                 /\ oauth.now <= oauth.issued[state].expires_at
                 /\ r.state_data = oauth.issued[state]
            /\ (\/ ~generated
                \/ state \in oauth.accepted
                \/ oauth.now > oauth.issued[state].expires_at)
                 => (~r.is_valid /\ r.state_data = NoStateData)
            /\ state \notin {e.state : e \in oauth'._states}]_vars

\* a token was accepted, and a second validate_state of it returned (False, None)
C25_Witness ==
    /\ oauth.call.op = "validate_state" /\ ~oauth.call.is_valid
    /\ oauth.call.state \in oauth.accepted
    /\ \E t \in oauth.deleted \ oauth.accepted : TRUE

\* C26: a run resumed by continue_after_permission(approved=True) applies
\* the permission check of process_prompt to every nested tool round: when a
\* tool use of a nested round has left a permission pending, the run emits
\* waiting_permission and suspends, without appending the tool results of
\* that round and without complete.
C26_NestedRoundSuspends ==
    [][(/\ pc = "cc_exec" /\ pc' # "cc_exec"
        /\ \E p \in get_pending_permissions, k \in 1..Len(tool_uses) :
              p.for_tool_use = tool_uses[k].id)
       => /\ messages' = messages
          /\ events' = Append(events, SSEEvent("status", "waiting_permission",
                                      Cardinality(get_pending_permissions)))
          /\ pc' = "idle"]_vars

\* C27: a run resumed by continue_after_permission terminates and performs
\* at most max_tool_iterations provider rounds, also when the provider
\* returns tool uses in every round.
C27_ResumedRunBounded ==
    run.kind = "continue_after_permission" => Rounds <= max_tool_iterations

\* C28: after any sequence of process_prompt and continue_after_permission
\* calls on one handler, every pending permission belongs to a tool call that
\* still awaits the user's decision: the tool use was not executed and the
\* conversation holds no tool result for it; and when the last run has emitted
\* complete, no permission is pending.
C28_PendingAwaitDecision ==
    pc = "idle" =>
       /\ \A p \in get_pending_permissions :
             /\ \A i \in 1..Len(executed) : executed[i].id # p.for_tool_use
             /\ \A j \in 1..Len(messages) :
                   \A k \in 1..Len(messages[j].tool_results) :
                      messages[j].tool_results[k].tool_use_id # p.for_tool_use
       /\ (events # <<>> /\ events[Len(events)] = SSEEvent("complete", "", 0))
             => get_pending_permissions = {}

\* C29: across a suspension and its resumption, each tool use of an
\* assistant message is executed at most once: a tool use that ran in
\* process_prompt before the round suspended is not executed again by
\* continue_after_permission.
C29_ExecutedAtMostOnce ==
    \A i, j \in 1..Len(executed) : executed[i].id = executed[j].id => i = j

\* C30: when the subprocess of a connected stdio server has exited and the
\* read loop reads the end of its stdout, the connection's state becomes
\* error, with a message stored, and no longer reads connected.
C30_ExitEndsConnected ==
    [][\A c \in 1..Len(connections) :
          (/\ connections[c].server_type = "stdio"
           /\ connections[c].state = "connected"
           /\ ~connections[c].live
           /\ connections[c].reader = "running"
           /\ connections'[c].reader = "finished")
          => /\ connections'[c].state = "error"
             /\ connections'[c].error_message # ""]_vars

====
